---- MODULE Spec2Model ----
(***************************************************************************)
(* A model of the CSL toolchain: the bitmask builder (fardbits.py), the    *)
(* CSL pipeline canonicalize / parse_minimal / compile_to_ir / to_bytes,   *)
(* the expression engine of mini_cc.py and the two container codecs.       *)
(*                                                                         *)
(* Text is a sequence of one-character strings, a byte string a sequence   *)
(* of numbers 0..255, a Python int used as a bitset the set of its set bit *)
(* positions (Python ints are unbounded, TLC's are not).                   *)
(***************************************************************************)
EXTENDS Integers, Sequences, FiniteSets, TLC

VARIABLES
    \* ---- build_mask (fardbits.py): arguments, locals, the call stack of rec
    dim, p, cond, bs, idx, coords, frames, mpc, merr,
    visited,      \* history: the <<tuple, idx>> pairs cond was evaluated on
    indices,      \* the list indices_from_bitset returned for the mask
    \* ---- the CSL pipeline: canonicalize, parse_minimal, compile_to_ir, to_bytes
    src, canon, prog, perr, bc, hexout, pc,
    recanon,      \* canonicalize applied to canon
    asmout,       \* the listing to_assembly returned
    \* ---- the expression engine: compile_to_z and Runtime.eval
    esrc, ast, env0, env, res, epc,
    pytext,       \* the lines z_to_py rendered for ast
    pyres,        \* what executing those lines in env0 gave
    \* ---- the containers: the files, and the state of the two packers
    fs, optimize, wrote, inflated,
    foreign,      \* the packers whose package had its body replaced or cut
    apc, ain, araw, apkg, abad, aerr, arestored,
    bpc, bmod, bpkg, bbad, berr, beval, zpacked, zunpacked, brun,
    \* ---- two ZNodes built one after the other: the fields given to the first,
    \* the two nodes, and what the second was given differently
    hop, hargs, hmeta, hnode, hother, hchange, hpc

maskVars == <<dim, p, cond, bs, idx, coords, frames, mpc, merr, visited, indices>>

pipeVars == <<src, canon, prog, perr, bc, hexout, pc, recanon, asmout>>

evalVars == <<esrc, ast, env0, env, res, epc, pytext, pyres>>

packVars ==
    <<fs, optimize, wrote, inflated, foreign, apc, ain, araw, apkg, abad, aerr, arestored,
      bpc, bmod, bpkg, bbad, berr, beval, zpacked, zunpacked, brun>>

hashVars == <<hop, hargs, hmeta, hnode, hother, hchange, hpc>>

vars == <<maskVars, pipeVars, evalVars, packVars, hashVars>>

\* ------------------------------------------------------------------ bounds
MaxP == 3
MaxDim == 3
\* every predicate (as a set of accepted tuples) is drawn when the lattice has
\* at most this many points; larger lattices draw from the predicate family
MaxFullPred == 4
\* the longest run of step lines a drawn source has
MaxSteps == 3
\* the largest integer literal of a drawn expression source
MaxLit == 7
\* the longest content of a drawn file, in bytes
MaxBytes == 2
\* the longest text canonicalize is applied to twice
MaxText == 4
\* the largest number of children of a drawn node
MaxArgs == 2

\* ----------------------------------------------------------------- helpers
RECURSIVE Pow(_, _)
Pow(b, e) == IF e <= 0 THEN 1 ELSE b * Pow(b, e - 1)

Range(n) == 0 .. (n - 1)

Tuples(d, q) == [1 .. d -> Range(q)]

\* the tuple at lexicographic enumeration index i: the base-q digits of i
TupleAt(i, d, q) == [k \in 1 .. d |-> (i \div Pow(q, d - k)) % q]

\* -------------------------------------------------------------------- text
\* A character is a one-character string; the characters outside ASCII that the
\* sources name are written <name>.
Digits == <<"0", "1", "2", "3", "4", "5", "6", "7", "8", "9">>
UpperCase == <<"A", "B", "C", "D", "E", "F", "G", "H", "I", "J", "K", "L", "M",
               "N", "O", "P", "Q", "R", "S", "T", "U", "V", "W", "X", "Y", "Z">>
LowerCase == <<"a", "b", "c", "d", "e", "f", "g", "h", "i", "j", "k", "l", "m",
               "n", "o", "p", "q", "r", "s", "t", "u", "v", "w", "x", "y", "z">>

IsDigit(c) == \E k \in 1 .. 10 : Digits[k] = c
DigitVal(c) == (CHOOSE k \in 1 .. 10 : Digits[k] = c) - 1
IsUpper(c) == \E k \in 1 .. 26 : UpperCase[k] = c

\* capital letters (category Lu) that have no lower-case letter: str.isupper()
\* holds of them and str.lower() returns them; the double-struck R is one
UnpairedCapitals == {"<doublestruck-R>"}
IsUpperLetter(c) == IsUpper(c) \/ c \in UnpairedCapitals

\* str.lower() on one character
Lower(c) == IF IsUpper(c) THEN LowerCase[CHOOSE k \in 1 .. 26 : UpperCase[k] = c] ELSE c

\* the characters str.strip() and str.split() treat as white space
IsSpace(c) == c \in {" ", "\t", "\n", "\r", "\f", "<vt>", "<nbsp>"}

Drop(s, n) == SubSeq(s, n + 1, Len(s))
Take(s, n) == SubSeq(s, 1, n)

\* s.find(c) and s.rfind(c), 1-based, 0 when absent
FindChar(s, c) ==
    IF \E i \in 1 .. Len(s) : s[i] = c
    THEN CHOOSE i \in 1 .. Len(s) : s[i] = c /\ \A j \in 1 .. (i - 1) : s[j] # c
    ELSE 0
RFindChar(s, c) ==
    IF \E i \in 1 .. Len(s) : s[i] = c
    THEN CHOOSE i \in 1 .. Len(s) : s[i] = c /\ \A j \in (i + 1) .. Len(s) : s[j] # c
    ELSE 0

\* sub in s
Contains(s, sub) ==
    \E i \in 1 .. (Len(s) - Len(sub) + 1) : SubSeq(s, i, i + Len(sub) - 1) = sub

StartsWith(s, pre) == Len(s) >= Len(pre) /\ Take(s, Len(pre)) = pre

\* s.split(c): the pieces between the occurrences of c, empty pieces kept
RECURSIVE SplitOn(_, _)
SplitOn(s, c) ==
    LET i == FindChar(s, c)
    IN IF i = 0 THEN <<s>> ELSE <<Take(s, i - 1)>> \o SplitOn(Drop(s, i), c)

\* s.split(): the maximal runs of characters that are not white space
RECURSIVE SplitWS(_)
SplitWS(s) ==
    IF Len(s) = 0 THEN <<>>
    ELSE IF IsSpace(s[1]) THEN SplitWS(Drop(s, 1))
    ELSE LET stops == {i \in 1 .. Len(s) : IsSpace(s[i])}
             e == IF stops = {} THEN Len(s) + 1
                  ELSE CHOOSE i \in stops : \A j \in stops : i <= j
         IN <<Take(s, e - 1)>> \o SplitWS(Drop(s, e - 1))

\* sep.join(parts)
RECURSIVE JoinWith(_, _)
JoinWith(parts, sep) ==
    IF Len(parts) = 0 THEN <<>>
    ELSE IF Len(parts) = 1 THEN parts[1]
    ELSE parts[1] \o sep \o JoinWith(Drop(parts, 1), sep)

SelectNonEmpty(parts) == SelectSeq(parts, LAMBDA ln : Len(ln) > 0)

\* the value of a run of decimal digits
RECURSIVE DigitsValue(_)
DigitsValue(s) ==
    IF Len(s) = 0 THEN 0
    ELSE 10 * DigitsValue(Take(s, Len(s) - 1)) + DigitVal(s[Len(s)])

\* str(n) for an integer n
RECURSIVE DecNat(_)
DecNat(n) == IF n < 10 THEN <<Digits[n + 1]>> ELSE DecNat(n \div 10) \o <<Digits[(n % 10) + 1]>>
Dec(n) == IF n < 0 THEN <<"-">> \o DecNat(-n) ELSE DecNat(n)

\* int(s) for a token s (no surrounding white space): an optional sign, then
\* digits, single underscores allowed between digits; anything else raises
IntBody(s) == IF Len(s) > 0 /\ s[1] \in {"+", "-"} THEN Drop(s, 1) ELSE s
IntOk(s) ==
    LET b == IntBody(s)
    IN /\ Len(b) > 0
       /\ IsDigit(b[1]) /\ IsDigit(b[Len(b)])
       /\ \A i \in 1 .. Len(b) : IsDigit(b[i]) \/ (b[i] = "_" /\ b[i + 1] # "_")
IntValue(s) ==
    LET v == DigitsValue(SelectSeq(IntBody(s), IsDigit))
    IN IF s[1] = "-" THEN -v ELSE v

\* ------------------------------------------------------------------ asc7.py
\* a table whose entries lead to other keys of the table
_ASC7_MAP_Chained(ch) ==
    CASE ch = "<ldquo>" -> "<rdquo>"
      [] ch = "<rdquo>" -> "\""
      [] ch \in {"<lsquo>", "<rsquo>"} -> "'"
      [] ch \in {"<emdash>", "<endash>"} -> "-"
      [] ch \in {"<nbsp>", "\t", "\r", "\f"} -> " "
      [] OTHER -> ch

_ASC7_MAP(ch) ==
    CASE ch \in {"<ldquo>", "<rdquo>"} -> "\""
      [] ch \in {"<lsquo>", "<rsquo>"} -> "'"
      [] ch \in {"<emdash>", "<endash>"} -> "-"
      [] ch \in {"<nbsp>", "\t", "\r", "\f"} -> " "
      [] OTHER -> ch

CanonLine(ln) == JoinWith(SplitWS(ln), <<" ">>)

\* every line that is not empty, comments too
KeepNonEmpty(ln) == Len(ln) > 0
KeepLine(ln) == Len(ln) > 0 /\ ~StartsWith(ln, <<"/", "/">>)

canonicalize(source) ==
    LET s == [i \in 1 .. Len(source) |-> Lower(_ASC7_MAP(source[i]))]
        split == SplitOn(s, "\n")
        lines == SelectSeq([i \in 1 .. Len(split) |-> CanonLine(split[i])], KeepLine)
    IN JoinWith(lines, <<"\n">>)

\* ---------------------------------------------------------------- parser.py
PsiDecl(q, d) == [p |-> q, dim |-> d]
ValDecl(kind, args) == [kind |-> kind, args |-> args]
Step(op, args) == [op |-> op, args |-> args]
Program(psi, val, steps) == [psi |-> psi, val |-> val, steps |-> steps]

\* a floating point literal as the fraction it denotes
Frac(n, d) == <<n, d>>

NoProgram == Program(PsiDecl(0, 0), ValDecl("none", <<0, 0>>), <<>>)

\* the first position at or after i that holds no white space (no digit)
SkipWS(s, i) ==
    CHOOSE j \in i .. (Len(s) + 1) :
        /\ j > Len(s) \/ ~IsSpace(s[j])
        /\ \A k \in i .. (j - 1) : IsSpace(s[k])
DigitsEnd(s, i) ==
    CHOOSE j \in i .. (Len(s) + 1) :
        /\ j > Len(s) \/ ~IsDigit(s[j])
        /\ \A k \in i .. (j - 1) : IsDigit(s[k])

\* _val_re = x\s*(\d+)\s*=\s*(-?\d+) matched at position i of s
ValMatchAt(s, i) ==
    LET a == SkipWS(s, i + 1)
        b == DigitsEnd(s, a)
        c == SkipWS(s, b)
        d == IF c <= Len(s) THEN SkipWS(s, c + 1) ELSE c
        e == IF d <= Len(s) /\ s[d] = "-" THEN d + 1 ELSE d
        f == IF e <= Len(s) THEN DigitsEnd(s, e) ELSE e
    IN [ok |-> /\ s[i] = "x"
               /\ b > a
               /\ c <= Len(s) /\ s[c] = "="
               /\ f > e,
        g1 |-> SubSeq(s, a, b - 1),
        g2 |-> SubSeq(s, d, f - 1)]

\* _val_re.search(s): the leftmost match, 0 when there is none
ValSearch(s) ==
    LET hits == {i \in 1 .. Len(s) : ValMatchAt(s, i).ok}
    IN IF hits = {} THEN 0 ELSE CHOOSE i \in hits : \A j \in hits : i <= j

\* L2.split(":", 1)[1].rsplit("}", 1)[0]
ConstraintRegion(L2) ==
    LET after == Drop(L2, FindChar(L2, ":"))
        close == RFindChar(after, "}")
    IN IF close = 0 THEN after ELSE Take(after, close - 1)

\* the markers of the step lines
GradMarkers == {<<"<nabla>", "l">>, <<"g", "r", "a", "d">>}
ProjectMarkers == {<<"p", "_", "v">>}
GoalMarkersWord == {<<"<turnstile>">>, <<"g", "o", "a", "l">>}
GoalMarkers == {<<"<turnstile>">>, <<"v", "d", "a", "s", "h">>}

HasMarker(l, markers) == \E m \in markers : Contains(l, m)

\* the steps of a line with the projection marker looked for first
ClassifyStepProjectFirst(ln) ==
    LET l == [i \in 1 .. Len(ln) |-> Lower(ln[i])]
    IN IF HasMarker(l, ProjectMarkers) THEN <<Step("project", <<>>)>>
       ELSE IF HasMarker(l, GradMarkers) THEN <<Step("grad", <<>>)>>
       ELSE IF HasMarker(l, GoalMarkers)
            THEN <<Step("goal", <<Frac(1, 100), Frac(99, 100)>>)>>
       ELSE <<>>

\* the steps one line after line 2 contributes
ClassifyStep(ln) ==
    LET l == [i \in 1 .. Len(ln) |-> Lower(ln[i])]
    IN IF HasMarker(l, GradMarkers) THEN <<Step("grad", <<>>)>>
       ELSE IF HasMarker(l, ProjectMarkers) THEN <<Step("project", <<>>)>>
       ELSE IF HasMarker(l, GoalMarkers)
            THEN <<Step("goal", <<Frac(1, 100), Frac(99, 100)>>)>>
       ELSE <<>>

RECURSIVE ClassifySteps(_)
ClassifySteps(lines) ==
    IF Len(lines) = 0 THEN <<>>
    ELSE ClassifyStep(lines[1]) \o ClassifySteps(Drop(lines, 1))

Failed(msg) == [err |-> msg, prog |-> NoProgram]

\* int(m.group(1)) - 1
AxisIndexRaw(g1) == DigitsValue(g1)
AxisIndex(g1) == DigitsValue(g1) - 1

\* line 2 and the step lines, once line 1 gave psi
ParseValidator(lines, psi) ==
    LET L2 == lines[2]
        region == ConstraintRegion(L2)
        at == ValSearch(region)
        m == ValMatchAt(region, at)
        axis_idx == AxisIndex(m.g1)
        cval == IntValue(m.g2)
    IN IF FindChar(L2, ":") = 0 \/ FindChar(L2, "}") = 0
       THEN Failed("line 2 must define validator")
       ELSE IF at = 0
       THEN Failed("could not parse validator")
       ELSE [err |-> "none",
             prog |-> Program(psi, ValDecl("x_eq_const", <<axis_idx, cval>>),
                              ClassifySteps(Drop(lines, 2)))]

\* the messages of the ValueErrors of the first checks
MsgTooShort == "program too short"
MsgSeparator == "line 1 must contain '::'"
MsgPrefix == "expecting f<p>^<dim> in line 1"
MsgCaret == "expecting caret (^) in field spec"

\* "::" in L1, L1 being the list of the words of line 1
HasSeparator(L1) == \E k \in 1 .. Len(L1) : L1[k] = <<":", ":">>

\* the checks of line 1 with the prefix looked at before the separator
Line1ErrorPrefixFirst(L1) ==
    IF Len(L1) > 0 /\ ~StartsWith(L1[Len(L1)], <<"f">>) THEN MsgPrefix
    ELSE IF ~HasSeparator(L1) THEN MsgSeparator
    ELSE IF FindChar(Drop(L1[Len(L1)], 1), "^") = 0 THEN MsgCaret
    ELSE "none"

\* the checks of line 1 in the order parse_minimal makes them
Line1Error(L1) ==
    IF ~HasSeparator(L1) THEN MsgSeparator
    ELSE IF ~StartsWith(L1[Len(L1)], <<"f">>) THEN MsgPrefix
    ELSE IF FindChar(Drop(L1[Len(L1)], 1), "^") = 0 THEN MsgCaret
    ELSE "none"

parse_minimal(canon_text) ==
    LET lines == SelectNonEmpty(SplitOn(canon_text, "\n"))
        L1 == SplitWS(lines[1])
        layout == L1[Len(L1)]
        after_f == Drop(layout, 1)
        caret == FindChar(after_f, "^")
        p_str == Take(after_f, caret - 1)
        dim_str == Drop(after_f, caret)
    IN IF Len(lines) < 2 THEN Failed(MsgTooShort)
       ELSE IF Line1Error(L1) # "none" THEN Failed(Line1Error(L1))
       ELSE IF ~IntOk(p_str) \/ ~IntOk(dim_str)
       THEN Failed("invalid literal for int()")
       ELSE ParseValidator(lines, PsiDecl(IntValue(p_str), IntValue(dim_str)))

\* ------------------------------------------------- json, as mini_cc uses it
\* A JSON value: an int, a string (a text), a list, or a dict. A dict is the
\* sequence of its items, [k, v] with k a text, in insertion order, as Python
\* keeps it; no key occurs twice.
JInt(n) == [j |-> "int", n |-> n]
JStr(s) == [j |-> "str", s |-> s]
JList(items) == [j |-> "list", items |-> items]
JDict(d) == [j |-> "dict", d |-> d]

EmptyDict == <<>>
Item(k, v) == [k |-> k, v |-> v]
\* the keys of d, k in d, d[k], and d after d[k] = v
DictKeys(d) == {d[i].k : i \in 1 .. Len(d)}
HasKey(d, k) == \E i \in 1 .. Len(d) : d[i].k = k
DictGet(d, k) == d[CHOOSE i \in 1 .. Len(d) : d[i].k = k].v
DictSet(d, k, v) ==
    IF HasKey(d, k) THEN [i \in 1 .. Len(d) |-> IF d[i].k = k THEN Item(k, v) ELSE d[i]]
    ELSE Append(d, Item(k, v))

\* the serialized form: a sequence of tokens, strings and numbers kept whole
TokP(c) == [k |-> "punct", c |-> c]
TokInt(n) == [k |-> "int", n |-> n]
TokStr(s) == [k |-> "str", s |-> s]

\* the order of the characters of keys (their code points)
AsciiOrder == Digits \o UpperCase \o <<"_">> \o LowerCase
OrdTable ==
    [c \in {AsciiOrder[k] : k \in 1 .. Len(AsciiOrder)} |->
        CHOOSE k \in 1 .. Len(AsciiOrder) : AsciiOrder[k] = c]
Ord(c) == OrdTable[c]
StrLess(s, t) ==
    \E k \in 1 .. (Len(s) + 1) :
        /\ k - 1 <= Len(t)
        /\ \A j \in 1 .. (k - 1) : s[j] = t[j]
        /\ IF k > Len(s) THEN k <= Len(t)
           ELSE k <= Len(t) /\ Ord(s[k]) < Ord(t[k])

\* sort_keys=True
RECURSIVE SortedKeys(_)
SortedKeys(S) ==
    IF S = {} THEN <<>>
    ELSE LET m == CHOOSE x \in S : \A y \in S \ {x} : StrLess(x, y)
         IN <<m>> \o SortedKeys(S \ {m})

\* the keys in the order json.dumps writes them: insertion order, and with
\* sort_keys=True sorted order
InsertionKeys(d) == [i \in 1 .. Len(d) |-> d[i].k]
DumpKeys(d) == SortedKeys(DictKeys(d))

\* json.dumps(x, sort_keys=True, separators=(",", ":"))
RECURSIVE JDumps(_), DumpItems(_), DumpPairs(_, _)
JDumps(x) ==
    CASE x.j = "int" -> <<TokInt(x.n)>>
      [] x.j = "str" -> <<TokStr(x.s)>>
      [] x.j = "list" -> <<TokP("[")>> \o DumpItems(x.items) \o <<TokP("]")>>
      [] x.j = "dict" ->
            <<TokP("{")>> \o DumpPairs(x.d, DumpKeys(x.d)) \o <<TokP("}")>>
DumpItems(items) ==
    IF Len(items) = 0 THEN <<>>
    ELSE IF Len(items) = 1 THEN JDumps(items[1])
    ELSE JDumps(items[1]) \o <<TokP(",")>> \o DumpItems(Drop(items, 1))
DumpPairs(d, keys) ==
    IF Len(keys) = 0 THEN <<>>
    ELSE <<TokStr(keys[1]), TokP(":")>> \o JDumps(DictGet(d, keys[1]))
         \o (IF Len(keys) = 1 THEN <<>> ELSE <<TokP(",")>> \o DumpPairs(d, Drop(keys, 1)))

\* json.loads: [ok, v, i] is the value read from position i on and the position
\* after it
NoJson == JInt(0)
JFail(i) == [ok |-> FALSE, v |-> NoJson, i |-> i]
IsPunct(ts, i, c) == i <= Len(ts) /\ ts[i].k = "punct" /\ ts[i].c = c

RECURSIVE LoadValue(_, _), LoadItems(_, _, _), LoadPairs(_, _, _)
LoadValue(ts, i) ==
    IF i > Len(ts) THEN JFail(i)
    ELSE IF ts[i].k = "int" THEN [ok |-> TRUE, v |-> JInt(ts[i].n), i |-> i + 1]
    ELSE IF ts[i].k = "str" THEN [ok |-> TRUE, v |-> JStr(ts[i].s), i |-> i + 1]
    ELSE IF ts[i].c = "["
         THEN IF IsPunct(ts, i + 1, "]")
              THEN [ok |-> TRUE, v |-> JList(<<>>), i |-> i + 2]
              ELSE LoadItems(ts, i + 1, <<>>)
    ELSE IF ts[i].c = "{"
         THEN IF IsPunct(ts, i + 1, "}")
              THEN [ok |-> TRUE, v |-> JDict(EmptyDict), i |-> i + 2]
              ELSE LoadPairs(ts, i + 1, EmptyDict)
    ELSE JFail(i)
LoadItems(ts, i, acc) ==
    LET r == LoadValue(ts, i)
    IN IF ~r.ok THEN r
       ELSE IF IsPunct(ts, r.i, ",") THEN LoadItems(ts, r.i + 1, Append(acc, r.v))
       ELSE IF IsPunct(ts, r.i, "]")
            THEN [ok |-> TRUE, v |-> JList(Append(acc, r.v)), i |-> r.i + 1]
       ELSE JFail(r.i)
LoadPairs(ts, i, acc) ==
    IF ~(i + 1 <= Len(ts) /\ ts[i].k = "str" /\ IsPunct(ts, i + 1, ":")) THEN JFail(i)
    ELSE LET r == LoadValue(ts, i + 2)
             d == DictSet(acc, ts[i].s, r.v)
         IN IF ~r.ok THEN r
            ELSE IF IsPunct(ts, r.i, ",") THEN LoadPairs(ts, r.i + 1, d)
            ELSE IF IsPunct(ts, r.i, "}") THEN [ok |-> TRUE, v |-> JDict(d), i |-> r.i + 1]
            ELSE JFail(r.i)

JLoads(ts) ==
    LET r == LoadValue(ts, 1)
    IN IF r.ok /\ r.i = Len(ts) + 1 THEN r ELSE JFail(r.i)

\* ---------------------------------------------------------------- mini_cc.py
K_op == <<"o", "p">>
K_args == <<"a", "r", "g", "s">>
K_meta == <<"m", "e", "t", "a">>
K_name == <<"n", "a", "m", "e">>
K_value == <<"v", "a", "l", "u", "e">>

\* ZOp and the names of its members
ZOps == {"INT", "VAR", "ADD", "MUL", "APPLY", "LET"}
OpName(op) ==
    CASE op = "INT" -> <<"I", "N", "T">>
      [] op = "VAR" -> <<"V", "A", "R">>
      [] op = "ADD" -> <<"A", "D", "D">>
      [] op = "MUL" -> <<"M", "U", "L">>
      [] op = "APPLY" -> <<"A", "P", "P", "L", "Y">>
      [] op = "LET" -> <<"L", "E", "T">>

\* _canon of a dict
_canon(x) == JDumps(x)

\* sha256(...).hexdigest()[:16]: the digest stands for the bytes it was computed
\* from (taken to be free of collisions)
Sha256Hex16(bytes) == [sha256_16 |-> bytes]

\* collapse_hash of one part
collapse_hash(part) == Sha256Hex16(_canon(part))

\* {"op":..., "meta":..., "args":...} of __post_init__ and
\* {"op":..., "args":..., "meta":...} of to_canon
PostInitDict(op, meta, arg_json) ==
    JDict(<<Item(K_op, JStr(OpName(op))), Item(K_meta, JDict(meta)), Item(K_args, JList(arg_json))>>)
NodeDict(op, arg_json, meta) ==
    JDict(<<Item(K_op, JStr(OpName(op))), Item(K_args, JList(arg_json)), Item(K_meta, JDict(meta))>>)

\* ZNode.to_canon
RECURSIVE to_canon(_)
to_canon(z) ==
    _canon(NodeDict(z.op,
                    [k \in 1 .. Len(z.args) |-> JLoads(to_canon(z.args[k])).v],
                    z.meta))

\* ZNode(op, args, meta), collapse_id set by __post_init__
ZNode(op, args, meta) ==
    [op |-> op, args |-> args, meta |-> meta,
     collapse_id |->
        collapse_hash(PostInitDict(op, meta,
                                   [k \in 1 .. Len(args) |-> JLoads(to_canon(args[k])).v]))]

MetaValue(n) == <<Item(K_value, JInt(n))>>
MetaName(nm) == <<Item(K_name, JStr(nm))>>

ZInt(n) == ZNode("INT", <<>>, MetaValue(n))
ZVar(nm) == ZNode("VAR", <<>>, MetaName(nm))
ZAdd(l, r) == ZNode("ADD", <<l, r>>, EmptyDict)
ZMul(l, r) == ZNode("MUL", <<l, r>>, EmptyDict)
ZApply(f, a) == ZNode("APPLY", <<f, a>>, EmptyDict)
ZLet(nm, val, body) == ZNode("LET", <<val, body>>, MetaName(nm))

\* ---- Tokenizer
Token(type) == [type |-> type]
TokenInt(n) == [type |-> "INT", value |-> n]
TokenIdent(w) == [type |-> "IDENT", name |-> w]

IsAlpha(c) == IsUpper(c) \/ (\E k \in 1 .. 26 : LowerCase[k] = c)
IsAlnum(c) == IsAlpha(c) \/ IsDigit(c)

\* the end of the run of identifier characters that starts at i
IdentEnd(s, i) ==
    CHOOSE j \in i .. (Len(s) + 1) :
        /\ j > Len(s) \/ ~(IsAlnum(s[j]) \/ s[j] = "_")
        /\ \A k \in i .. (j - 1) : IsAlnum(s[k]) \/ s[k] = "_"

Word(w) ==
    IF w = <<"l", "e", "t">> THEN Token("LET")
    ELSE IF w = <<"i", "n">> THEN Token("IN")
    ELSE TokenIdent(w)

PunctType(c) ==
    CASE c = "+" -> "PLUS" [] c = "*" -> "STAR" [] c = "(" -> "LPAREN"
      [] c = ")" -> "RPAREN" [] c = "," -> "COMMA"

RECURSIVE TokenizeFrom(_, _, _)
TokenizeFrom(s, i, ts) ==
    IF i > Len(s) THEN [ok |-> TRUE, ts |-> Append(ts, Token("EOF"))]
    ELSE IF IsSpace(s[i]) THEN TokenizeFrom(s, i + 1, ts)
    ELSE IF IsDigit(s[i])
         THEN LET j == DigitsEnd(s, i)
              IN TokenizeFrom(s, j, Append(ts, TokenInt(DigitsValue(SubSeq(s, i, j - 1)))))
    ELSE IF IsAlpha(s[i]) \/ s[i] = "_"
         THEN LET j == IdentEnd(s, i)
              IN TokenizeFrom(s, j, Append(ts, Word(SubSeq(s, i, j - 1))))
    ELSE IF s[i] = "-" /\ i < Len(s) /\ s[i + 1] = ">"
         THEN TokenizeFrom(s, i + 2, Append(ts, Token("ARROW")))
    ELSE IF s[i] \in {"+", "*", "(", ")", ","}
         THEN TokenizeFrom(s, i + 1, Append(ts, Token(PunctType(s[i]))))
    ELSE [ok |-> FALSE, ts |-> <<>>]

tokenize(s) == TokenizeFrom(s, 1, <<>>)

\* ---- Parser: [ok, node, i] is the node read and the parser's position after it
NoNode == [op |-> "none", args |-> <<>>, meta |-> EmptyDict, collapse_id |-> Sha256Hex16(<<>>)]
PFail(i) == [ok |-> FALSE, node |-> NoNode, i |-> i]
POk(node, i) == [ok |-> TRUE, node |-> node, i |-> i]

\* Parser.adv: never past the last token
adv(ts, i) == IF i < Len(ts) THEN i + 1 ELSE i
Is(ts, i, type) == ts[i].type = type

\* the APPLY chain `for a in args: f=ZNode(ZOp.APPLY,[f,a])`
RECURSIVE ApplyAll(_, _)
ApplyAll(f, args) ==
    IF Len(args) = 0 THEN f ELSE ApplyAll(ZApply(f, args[1]), Drop(args, 1))

RECURSIVE P_expr(_, _), P_add(_, _), AddRest(_, _), AddLoop(_, _, _), AddNext(_, _, _),
          P_mul(_, _), MulRest(_, _), MulLoop(_, _, _), MulNext(_, _, _),
          P_app(_, _), AppRest(_, _), FirstArg(_, _), ArgLoop(_, _, _), ArgNext(_, _, _),
          P_prim(_, _), Parenthesized(_, _)

P_expr(ts, i) ==
    IF Is(ts, i, "LET")
    THEN LET i1 == adv(ts, i) IN
         IF ~Is(ts, i1, "IDENT") THEN PFail(i1) ELSE
         LET i2 == adv(ts, i1) IN
         IF ~Is(ts, i2, "ARROW") THEN PFail(i2) ELSE
         LET val == P_expr(ts, adv(ts, i2)) IN
         IF ~val.ok THEN val ELSE
         IF ~Is(ts, val.i, "IN") THEN PFail(val.i) ELSE
         LET body == P_expr(ts, adv(ts, val.i)) IN
         IF ~body.ok THEN body
         ELSE POk(ZLet(ts[i1].name, val.node, body.node), body.i)
    ELSE P_add(ts, i)

\* Parser.add: left=self.mul(), then the while loop
P_add(ts, i) == AddRest(ts, P_mul(ts, i))
AddRest(ts, left) == IF ~left.ok THEN left ELSE AddLoop(ts, left.node, left.i)
AddLoop(ts, left, i) ==
    IF Is(ts, i, "PLUS") THEN AddNext(ts, left, P_mul(ts, adv(ts, i))) ELSE POk(left, i)
AddNext(ts, left, right) ==
    IF ~right.ok THEN right ELSE AddLoop(ts, ZAdd(left, right.node), right.i)

\* Parser.mul: left=self.app(), then the while loop
P_mul(ts, i) == MulRest(ts, P_app(ts, i))
MulRest(ts, left) == IF ~left.ok THEN left ELSE MulLoop(ts, left.node, left.i)
MulLoop(ts, left, i) ==
    IF Is(ts, i, "STAR") THEN MulNext(ts, left, P_app(ts, adv(ts, i))) ELSE POk(left, i)
MulNext(ts, left, right) ==
    IF ~right.ok THEN right ELSE MulLoop(ts, ZMul(left, right.node), right.i)

\* the arguments of a call: [ok, args, i]
FirstArg(ts, first) ==
    IF ~first.ok THEN [ok |-> FALSE, args |-> <<>>, i |-> first.i]
    ELSE ArgLoop(ts, <<first.node>>, first.i)
ArgLoop(ts, args, i) ==
    IF Is(ts, i, "COMMA") THEN ArgNext(ts, args, P_expr(ts, adv(ts, i)))
    ELSE [ok |-> TRUE, args |-> args, i |-> i]
ArgNext(ts, args, a) ==
    IF ~a.ok THEN [ok |-> FALSE, args |-> args, i |-> a.i]
    ELSE ArgLoop(ts, Append(args, a.node), a.i)

\* Parser.app: f=self.prim(), then at most one parenthesized argument list
P_app(ts, i) == AppRest(ts, P_prim(ts, i))
AppRest(ts, f) ==
    IF ~f.ok THEN f
    ELSE IF Is(ts, f.i, "LPAREN")
    THEN LET i1 == adv(ts, f.i)
             got == IF Is(ts, i1, "RPAREN") THEN [ok |-> TRUE, args |-> <<>>, i |-> i1]
                    ELSE FirstArg(ts, P_expr(ts, i1))
         IN IF ~got.ok THEN PFail(got.i)
            ELSE IF ~Is(ts, got.i, "RPAREN") THEN PFail(got.i)
            ELSE POk(ApplyAll(f.node, got.args), adv(ts, got.i))
    ELSE f

P_prim(ts, i) ==
    IF Is(ts, i, "INT") THEN POk(ZInt(ts[i].value), adv(ts, i))
    ELSE IF Is(ts, i, "IDENT") THEN POk(ZVar(ts[i].name), adv(ts, i))
    ELSE IF Is(ts, i, "LPAREN") THEN Parenthesized(ts, P_expr(ts, adv(ts, i)))
    ELSE PFail(i)
Parenthesized(ts, e) ==
    IF ~e.ok THEN e
    ELSE IF ~Is(ts, e.i, "RPAREN") THEN PFail(e.i)
    ELSE POk(e.node, adv(ts, e.i))

\* an expression, whatever follows it
parsePrefix(ts) == P_expr(ts, 1)

\* Parser.parse: an expression, then EOF
parse(ts) ==
    LET r == P_expr(ts, 1)
    IN IF r.ok /\ ~Is(ts, r.i, "EOF") THEN PFail(r.i) ELSE r

\* compile_to_z
compile_to_z(source) ==
    LET t == tokenize(source)
    IN IF ~t.ok THEN PFail(0) ELSE parse(t.ts)

\* ---- Runtime: the values an environment holds
IntV(n) == [t |-> "int", n |-> n]
NoneV == [t |-> "none"]
FnV(f) == [t |-> "fn", f |-> f]
\* the inner lambda of a curried helper, its first argument captured
ClosureV(f, a) == [t |-> "closure", f |-> f, a |-> a]

Ret(val, e) == [err |-> "none", val |-> val, env |-> e]
Raise(err, e) == [err |-> err, val |-> NoneV, env |-> e]

\* Python's a // b and a % b on ints
FloorDiv(a, b) == IF b > 0 THEN a \div b ELSE (-a) \div (-b)
PyMod(a, b) == a - b * FloorDiv(a, b)

\* f(a) for the callables: add1, double (mini_cc.py), the curried helpers of the
\* unpacker's environment, and noop, a callable of the caller that returns None
Call(f, a, e) ==
    IF f.t = "fn"
    THEN CASE f.f = "add1" -> IF a.t = "int" THEN Ret(IntV(a.n + 1), e) ELSE Raise("TypeError", e)
           [] f.f = "double" -> IF a.t = "int" THEN Ret(IntV(a.n * 2), e) ELSE Raise("TypeError", e)
           [] f.f = "noop" -> Ret(NoneV, e)
           [] OTHER -> Ret(ClosureV(f.f, a), e)
    ELSE IF f.t = "closure"
    THEN IF f.a.t # "int" \/ a.t # "int" THEN Raise("TypeError", e)
         ELSE CASE f.f = "sub" -> Ret(IntV(f.a.n - a.n), e)
                [] f.f = "floordiv" ->
                      IF a.n = 0 THEN Raise("ZeroDivisionError", e)
                      ELSE Ret(IntV(FloorDiv(f.a.n, a.n)), e)
                [] f.f = "mod" ->
                      IF a.n = 0 THEN Raise("ZeroDivisionError", e)
                      ELSE Ret(IntV(PyMod(f.a.n, a.n)), e)
    ELSE Raise("TypeError", e)

\* l + r and l * r
Plus(l, r, e) ==
    IF l.t = "int" /\ r.t = "int" THEN Ret(IntV(l.n + r.n), e) ELSE Raise("TypeError", e)
Times(l, r, e) ==
    IF l.t = "int" /\ r.t = "int" THEN Ret(IntV(l.n * r.n), e) ELSE Raise("TypeError", e)

\* self.env.get(name)
EnvGet(e, name) == IF name \in DOMAIN e THEN e[name] ELSE NoneV
\* self.env[name] = val
EnvSet(e, name, val) == (name :> val) @@ e
\* del self.env[name]
EnvDel(e, name) == [k \in (DOMAIN e) \ {name} |-> e[k]]

\* the finally clause of LET, entered with the outcome b of the body: an
\* exception raised in it (del of a name that is gone) replaces that outcome
LetFinallySkipped(b, name, old) == b
LetFinally(b, name, old) ==
    IF old = NoneV
    THEN IF name \in DOMAIN b.env
         THEN [b EXCEPT !.env = EnvDel(b.env, name)]
         ELSE Raise("KeyError", b.env)
    ELSE [b EXCEPT !.env = EnvSet(b.env, name, old)]

\* Runtime.eval: the outcome (a value or an exception) and the environment after
RECURSIVE Eval(_, _)
Eval(n, e) ==
    CASE n.op = "INT" -> Ret(IntV(DictGet(n.meta, K_value).n), e)
      [] n.op = "VAR" ->
            LET name == DictGet(n.meta, K_name).s
            IN IF name \notin DOMAIN e THEN Raise("NameError", e) ELSE Ret(e[name], e)
      [] n.op \in {"ADD", "MUL"} ->
            LET l == Eval(n.args[1], e)
                r == Eval(n.args[2], l.env)
            IN IF l.err # "none" THEN l
               ELSE IF r.err # "none" THEN r
               ELSE IF n.op = "ADD" THEN Plus(l.val, r.val, r.env)
               ELSE Times(l.val, r.val, r.env)
      [] n.op = "APPLY" ->
            LET f == Eval(n.args[1], e)
                a == Eval(n.args[2], f.env)
            IN IF f.err # "none" THEN f
               ELSE IF a.err # "none" THEN a
               ELSE Call(f.val, a.val, a.env)
      [] n.op = "LET" ->
            LET name == DictGet(n.meta, K_name).s
                val == Eval(n.args[1], e)
                old == EnvGet(val.env, name)
                body == Eval(n.args[2], EnvSet(val.env, name, val.val))
            IN IF val.err # "none" THEN val
               ELSE LetFinally(body, name, old)
      [] OTHER -> Raise("NotImplementedError", e)

\* ------------------------------------------------------------- fardbits.py
bitset_new(n) == {}

bitset_set_off(b, i) == b \cup {i + 1}
bitset_set(b, i) == b \cup {i}

bitset_test(b, i) == i \in b

RECURSIVE indices_from_bitset(_, _)
indices_from_bitset(b, n) ==
    IF n <= 0 THEN <<>>
    ELSE LET r == indices_from_bitset(b, n - 1)
         IN IF (n - 1) \in b THEN Append(r, n - 1) ELSE r

\* A predicate handed to build_mask.  "x_eq_const" is the compiler's
\* lambda x: x[axis]==cval; "set" is an arbitrary predicate given by the set of
\* tuples it accepts.
XEqConst(axis, cval) == [kind |-> "x_eq_const", axis |-> axis, cval |-> cval, accept |-> {}]
SetPred(S) == [kind |-> "set", axis |-> 0, cval |-> 0, accept |-> S]

\* Python's x[axis] on a tuple of length n: a negative axis counts from the end
PyIndexOk(n, axis) == -n <= axis /\ axis < n
PyIndex(n, axis) == IF axis < 0 THEN n + axis + 1 ELSE axis + 1

CondRaises(c, t) == c.kind = "x_eq_const" /\ ~PyIndexOk(Len(t), c.axis)

CondHolds(c, t) ==
    IF c.kind = "x_eq_const" THEN t[PyIndex(Len(t), c.axis)] = c.cval
    ELSE t \in c.accept

Top == frames[Len(frames)]
Pop == SubSeq(frames, 1, Len(frames) - 1)

\* the state of build_mask right after `rec(0)` has been entered
BuildMaskEntry(d, q, c) ==
    /\ dim = d /\ p = q /\ cond = c
    /\ bs = bitset_new(Pow(q, d))
    /\ idx = 0
    /\ coords = [k \in 1 .. d |-> 0]
    /\ frames = <<[d |-> 0, v |-> 0]>>
    /\ mpc = "rec"
    /\ merr = "none"
    /\ visited = <<>>
    /\ indices = <<>>

\* rec(d) with d == dim: test the predicate, set the bit, count the index
RecLeaf ==
    /\ mpc = "rec" /\ Len(frames) > 0 /\ Top.d = dim
    /\ IF CondRaises(cond, coords)
       THEN /\ mpc' = "raised" /\ merr' = "IndexError"
            /\ frames' = <<>>
            /\ UNCHANGED <<bs, idx, visited>>
       ELSE /\ bs' = IF CondHolds(cond, coords) THEN bitset_set(bs, idx) ELSE bs
            /\ idx' = idx + 1
            /\ visited' = Append(visited, [coords |-> coords, idx |-> idx])
            /\ frames' = Pop
            /\ mpc' = IF Len(frames) = 1 THEN "returned" ELSE "rec"
            /\ UNCHANGED merr
    /\ UNCHANGED <<dim, p, cond, coords, indices>>
    /\ UNCHANGED pipeVars

\* the value the loop `for v in range(p)` takes on its k-th iteration (k from 0)
LoopValueDown(k) == p - 1 - k
LoopValue(k) == k

\* rec(d) with d < dim, one iteration of the loop: coords[d] = v; rec(d+1)
RecLoop ==
    /\ mpc = "rec" /\ Len(frames) > 0 /\ Top.d < dim /\ Top.v < p
    /\ coords' = [coords EXCEPT ![Top.d + 1] = LoopValue(Top.v)]
    /\ frames' = Append([frames EXCEPT ![Len(frames)].v = Top.v + 1],
                        [d |-> Top.d + 1, v |-> 0])
    /\ UNCHANGED <<dim, p, cond, bs, idx, mpc, merr, visited, indices>>
    /\ UNCHANGED pipeVars

\* rec(d) with d < dim, the loop is exhausted: return to the caller
RecReturn ==
    /\ mpc = "rec" /\ Len(frames) > 0 /\ Top.d < dim /\ Top.v >= p
    /\ frames' = Pop
    /\ mpc' = IF Len(frames) = 1 THEN "returned" ELSE "rec"
    /\ UNCHANGED <<dim, p, cond, bs, idx, coords, merr, visited, indices>>
    /\ UNCHANGED pipeVars

\* -------------------------------------------------------------------- ir.py
OP_INIT == 1
OP_SEED == 2
OP_VMASK == 3
OP_GRAD == 4
OP_PROJ == 5
OP_METRICS == 6
OP_HALT == 7

\* the bits of a non-negative Python int, as the set of their positions
BitsOf(n) == {k \in 0 .. 30 : (n \div Pow(2, k)) % 2 = 1}

\* Instr(op, a, b, c, i) with the dataclass defaults 0.0, 0.0, 0.0, 0
Instr(op, a, b, c, i) == [op |-> op, a |-> a, b |-> b, c |-> c, i |-> i]
Zero == Frac(0, 1)
InstrOp(op) == Instr(op, Zero, Zero, Zero, {})

\* --------------------------------------------------------------- compiler.py
\* a goal step that emits no HALT
StepInstrsNoHalt(st) ==
    IF st.op = "grad" THEN <<Instr(OP_GRAD, Frac(1, 1), Frac(1, 1), Frac(1, 10), {})>>
    ELSE IF st.op = "project" THEN <<InstrOp(OP_PROJ)>>
    ELSE IF st.op = "goal" THEN <<InstrOp(OP_METRICS)>>
    ELSE <<>>

StepInstrs(st) ==
    IF st.op = "grad" THEN <<Instr(OP_GRAD, Frac(1, 1), Frac(1, 1), Frac(1, 10), {})>>
    ELSE IF st.op = "project" THEN <<InstrOp(OP_PROJ)>>
    ELSE IF st.op = "goal" THEN <<InstrOp(OP_METRICS), InstrOp(OP_HALT)>>
    ELSE <<>>

RECURSIVE StepsInstrs(_)
StepsInstrs(steps) ==
    IF Len(steps) = 0 THEN <<>>
    ELSE StepInstrs(steps[1]) \o StepsInstrs(Drop(steps, 1))

\* compile_to_ir up to the call of build_mask
CompileBegin ==
    /\ pc = "parsed"
    /\ bc' = <<Instr(OP_INIT, Zero, Zero, Zero, BitsOf(prog.psi.p)),
               Instr(OP_INIT, Zero, Frac(prog.psi.dim, 1), Zero, {}),
               InstrOp(OP_SEED)>>
    /\ dim' = prog.psi.dim /\ p' = prog.psi.p
    /\ cond' = XEqConst(prog.val.args[1], prog.val.args[2])
    /\ bs' = bitset_new(Pow(prog.psi.p, prog.psi.dim))
    /\ idx' = 0
    /\ coords' = [k \in 1 .. prog.psi.dim |-> 0]
    /\ frames' = <<[d |-> 0, v |-> 0]>>
    /\ mpc' = "rec"
    /\ visited' = <<>>
    /\ pc' = "build_mask"
    /\ UNCHANGED <<merr, indices, src, canon, prog, perr, hexout>>
    /\ UNCHANGED <<recanon, asmout>>

\* compile_to_ir from the return of build_mask on
CompileEnd ==
    /\ pc = "build_mask" /\ mpc = "returned"
    /\ bc' = bc \o <<Instr(OP_VMASK, Zero, Zero, Zero, bs)>> \o StepsInstrs(prog.steps)
    /\ pc' = "compiled"
    /\ mpc' = "idle"
    /\ UNCHANGED <<dim, p, cond, bs, idx, coords, frames, merr, visited, indices>>
    /\ UNCHANGED <<src, canon, prog, perr, hexout>>
    /\ UNCHANGED <<recanon, asmout>>

\* the predicate raised: the exception leaves build_mask and compile_to_ir
CompileRaise ==
    /\ pc = "build_mask" /\ mpc = "raised"
    /\ bc' = <<>>
    /\ perr' = merr
    /\ pc' = "failed"
    /\ mpc' = "idle"
    /\ UNCHANGED <<dim, p, cond, bs, idx, coords, frames, merr, visited, indices>>
    /\ UNCHANGED <<src, canon, prog, hexout>>
    /\ UNCHANGED <<recanon, asmout>>

\* ------------------------------------------------------------------- asm.py
HexDigits == <<"0", "1", "2", "3", "4", "5", "6", "7", "8", "9",
               "a", "b", "c", "d", "e", "f">>

\* binascii.hexlify(blob).decode()
RECURSIVE Hexlify(_)
Hexlify(blob) ==
    IF Len(blob) = 0 THEN <<>>
    ELSE <<HexDigits[(blob[1] \div 16) + 1], HexDigits[(blob[1] % 16) + 1]>>
         \o Hexlify(Drop(blob, 1))

\* the exponent e with 2^e <= n/d < 2^(e+1), for n/d > 0
RECURSIVE Log2Floor(_)
Log2Floor(n) == IF n < 2 THEN 0 ELSE 1 + Log2Floor(n \div 2)
RECURSIVE Log2Below(_, _)
Log2Below(n, d) == IF n >= d THEN 0 ELSE 1 + Log2Below(2 * n, d)
Exp2Floor(n, d) == IF n >= d THEN Log2Floor(n \div d) ELSE -Log2Below(n, d)

\* the IEEE 754 single precision bit pattern nearest to the fraction n/d >= 0
F32Bits(fr) ==
    LET n == fr[1]
        d == fr[2]
        e == Exp2Floor(n, d)
        num == n * Pow(2, 23 - e)
        q == num \div d
        r == num % d
        m == IF 2 * r > d \/ (2 * r = d /\ q % 2 = 1) THEN q + 1 ELSE q
    IN IF n = 0 THEN 0
       ELSE IF m = Pow(2, 24) THEN (e + 128) * Pow(2, 23)
       ELSE (e + 127) * Pow(2, 23) + (m - Pow(2, 23))

\* struct 'f', little-endian
F32LE(fr) == [k \in 1 .. 4 |-> (F32Bits(fr) \div Pow(256, k - 1)) % 256]

\* the low 32 bits only
Mask32(i) == i \cap (0 .. 31)
\* int(ins.i) & ((1<<64)-1)
Mask64(i) == i \cap (0 .. 63)

RECURSIVE BitsValue(_)
BitsValue(S) ==
    IF S = {} THEN 0
    ELSE LET b == CHOOSE x \in S : TRUE IN Pow(2, b) + BitsValue(S \ {b})

\* struct 'Q', little-endian, of an int below 2^64 given by its bits
U64LE(i) == [k \in 1 .. 8 |-> BitsValue({b \in 0 .. 7 : (8 * (k - 1) + b) \in i})]

\* struct.pack with native alignment pads the opcode byte to a 4-byte boundary
PackRecordAligned(ins) ==
    <<ins.op, 0, 0, 0>> \o F32LE(ins.a) \o F32LE(ins.b) \o F32LE(ins.c) \o U64LE(Mask64(ins.i))
\* struct.pack('<BfffQ', op, a, b, c, i & mask)
PackRecord(ins) ==
    <<ins.op>> \o F32LE(ins.a) \o F32LE(ins.b) \o F32LE(ins.c) \o U64LE(Mask64(ins.i))

\* f"{k:02d}"
Pad2(k) == IF k < 10 THEN <<"0">> \o DecNat(k) ELSE DecNat(k)

\* i.bit_length() and hex(i) of a non-negative int given by its bits
BitLength(i) == IF i = {} THEN 0 ELSE 1 + (CHOOSE b \in i : \A c \in i : c <= b)
Bit(i, b) == IF b \in i THEN 1 ELSE 0
Nibble(i, j) ==
    HexDigits[Bit(i, 4 * j) + 2 * Bit(i, 4 * j + 1) + 4 * Bit(i, 4 * j + 2)
              + 8 * Bit(i, 4 * j + 3) + 1]
HexWidth(i) == IF i = {} THEN 1 ELSE (BitLength(i) + 3) \div 4
HexOf(i) == <<"0", "x">> \o [k \in 1 .. HexWidth(i) |-> Nibble(i, HexWidth(i) - k)]

\* str of a float that is a whole number of tenths, as every float of an
\* emitted instruction is
FloatStr(fr) ==
    DecNat(fr[1] \div fr[2]) \o <<".">> \o DecNat(((fr[1] % fr[2]) * 10) \div fr[2])

\* the dict lookup of the last branch of to_assembly
OtherName(op) ==
    CASE op = OP_SEED -> <<"S", "E", "E", "D">>
      [] op = OP_PROJ -> <<"P", "R", "O", "J">>
      [] op = OP_METRICS -> <<"M", "E", "T", "R", "I", "C", "S">>
      [] op = OP_HALT -> <<"H", "A", "L", "T">>
      [] OTHER -> <<"O", "P">>

\* the text to_assembly appends for instruction number k
AsmLine(k, ins) ==
    Pad2(k) \o <<":", " ">> \o
    (IF ins.op = OP_INIT /\ ins.i # {}
        THEN <<"I", "N", "I", "T", " ", "p", "=">> \o DecNat(BitsValue(ins.i))
     ELSE IF ins.op = OP_INIT /\ ins.b[1] > 0
        THEN <<"I", "N", "I", "T", " ", "d", "i", "m", "=">> \o DecNat(ins.b[1] \div ins.b[2])
     ELSE IF ins.op = OP_VMASK
        THEN <<"V", "M", "A", "S", "K", " ", "n", "b", "i", "t", "s", "=">>
             \o DecNat(BitLength(ins.i)) \o <<" ", "h", "e", "x", "=">>
             \o SubSeq(HexOf(ins.i), 1, IF Len(HexOf(ins.i)) > 18 THEN 18 ELSE Len(HexOf(ins.i))) \o <<".", ".", ".">>
     ELSE IF ins.op = OP_GRAD
        THEN <<"G", "R", "A", "D", " ", "e", "t", "a", "=">> \o FloatStr(ins.c)
     ELSE OtherName(ins.op))

\* the separator to_assembly joins with: a backslash and the letter n
AsmSep == <<"\\", "n">>
\* a line break as the separator
AsmSepNewline == <<"\n">>

to_assembly(code) == JoinWith([k \in 1 .. Len(code) |-> AsmLine(k - 1, code[k])], AsmSep)

RECURSIVE to_bytes(_)
to_bytes(code) ==
    IF Len(code) = 0 THEN <<>>
    ELSE Hexlify(PackRecord(code[1])) \o to_bytes(Drop(code, 1))

\* ------------------------------------------------------ bytes and encodings
\* the characters of ASCII from the space (32) to the tilde (126), in order
Printable ==
    <<" ", "!", "\"", "#", "$", "%", "&", "'", "(", ")", "*", "+", ",", "-", ".", "/">>
    \o Digits \o <<":", ";", "<", "=", ">", "?", "@">> \o UpperCase
    \o <<"[", "\\", "]", "^", "_", "<grave>">> \o LowerCase \o <<"{", "|", "}", "~">>
PrintableChars == {Printable[k] : k \in 1 .. Len(Printable)}
IsPrintable(c) == c \in PrintableChars

\* the characters the drawn texts and names are made of; <surrogate> is what a
\* byte of a file name that is not UTF-8 becomes in a Python str
KnownChars == PrintableChars \cup {"\n", "<eacute>", "<nabla>", "<surrogate>"}

\* ord(c)
CodePointTable ==
    [c \in KnownChars |->
        IF c \in PrintableChars
        THEN 31 + (CHOOSE k \in 1 .. Len(Printable) : Printable[k] = c)
        ELSE CASE c = "\n" -> 10
               [] c = "<eacute>" -> 233
               [] c = "<nabla>" -> 8711
               [] c = "<surrogate>" -> 56448]
CodePoint(c) == CodePointTable[c]
\* chr(cp); a code point outside the known characters is kept as <other>
Chr(cp) ==
    IF cp \in 32 .. 126 THEN Printable[cp - 31]
    ELSE CASE cp = 10 -> "\n"
           [] cp = 233 -> "<eacute>"
           [] cp = 8711 -> "<nabla>"
           [] cp = 56448 -> "<surrogate>"
           [] OTHER -> "<other>"

IsSurrogate(cp) == cp \in 55296 .. 57343

\* the UTF-8 bytes of one code point
Utf8Char(cp) ==
    IF cp < 128 THEN <<cp>>
    ELSE IF cp < 2048 THEN <<192 + (cp \div 64), 128 + (cp % 64)>>
    ELSE IF cp < 65536
         THEN <<224 + (cp \div 4096), 128 + ((cp \div 64) % 64), 128 + (cp % 64)>>
    ELSE <<240 + (cp \div 262144), 128 + ((cp \div 4096) % 64),
           128 + ((cp \div 64) % 64), 128 + (cp % 64)>>

\* s.encode('utf-8'): raises UnicodeEncodeError on a surrogate
Utf8Encodable(s) == \A k \in 1 .. Len(s) : ~IsSurrogate(CodePoint(s[k]))
RECURSIVE Utf8EncodeRange(_, _, _)
Utf8EncodeRange(s, lo, hi) ==
    IF lo > hi THEN <<>>
    ELSE IF lo = hi THEN Utf8Char(CodePoint(s[lo]))
    ELSE LET m == (lo + hi) \div 2
         IN Utf8EncodeRange(s, lo, m) \o Utf8EncodeRange(s, m + 1, hi)
Utf8Encode(s) == Utf8EncodeRange(s, 1, Len(s))

\* the number of bytes of the character a lead byte starts, 0 for a byte that
\* starts none
Utf8Width(x) ==
    IF x < 128 THEN 1
    ELSE IF x \in 194 .. 223 THEN 2
    ELSE IF x \in 224 .. 239 THEN 3
    ELSE IF x \in 240 .. 244 THEN 4
    ELSE 0
IsCont(x) == x \in 128 .. 191

\* the character that starts at position i: [ok, c, n]
Utf8CharAt(b, i, hi) ==
    LET n == Utf8Width(b[i])
        conts == n >= 1 /\ i + n - 1 <= hi /\ \A k \in 1 .. (n - 1) : IsCont(b[i + k])
        cp == CASE n = 1 -> b[i]
                [] n = 2 -> (b[i] - 192) * 64 + (b[i + 1] - 128)
                [] n = 3 -> (b[i] - 224) * 4096 + (b[i + 1] - 128) * 64 + (b[i + 2] - 128)
                [] n = 4 -> (b[i] - 240) * 262144 + (b[i + 1] - 128) * 4096
                            + (b[i + 2] - 128) * 64 + (b[i + 3] - 128)
        ok == /\ conts
              /\ n = 3 => (cp >= 2048 /\ ~IsSurrogate(cp))
              /\ n = 4 => (cp >= 65536 /\ cp <= 1114111)
    IN IF ok THEN [ok |-> TRUE, c |-> Chr(cp), n |-> n] ELSE [ok |-> FALSE, c |-> "<other>", n |-> 0]

\* b.decode('utf-8'): [ok, s], ok false for UnicodeDecodeError. A long range is
\* decoded in two parts, cut where a character starts.
RECURSIVE Utf8DecodeRange(_, _, _)
Utf8DecodeRange(b, lo, hi) ==
    IF lo > hi THEN [ok |-> TRUE, s |-> <<>>]
    ELSE IF hi - lo < 8
    THEN LET ch == Utf8CharAt(b, lo, hi)
             rest == Utf8DecodeRange(b, lo + ch.n, hi)
         IN IF ~ch.ok THEN [ok |-> FALSE, s |-> <<>>]
            ELSE IF ~rest.ok THEN rest
            ELSE [ok |-> TRUE, s |-> <<ch.c>> \o rest.s]
    ELSE LET mid == (lo + hi) \div 2
             cuts == {m \in (mid + 1) .. (mid + 4) : ~IsCont(b[m])}
             m == CHOOSE x \in cuts : \A y \in cuts : x <= y
             l == Utf8DecodeRange(b, lo, m - 1)
             r == Utf8DecodeRange(b, m, hi)
         IN IF cuts = {} \/ ~l.ok \/ ~r.ok THEN [ok |-> FALSE, s |-> <<>>]
            ELSE [ok |-> TRUE, s |-> l.s \o r.s]
Utf8Decode(b) == Utf8DecodeRange(b, 1, Len(b))

\* b[lo:hi] of Python, lo and hi counted from 0 and clipped to the length
Slice(b, lo, hi) == SubSeq(b, lo + 1, IF hi < Len(b) THEN hi ELSE Len(b))

\* struct.pack('>I', n)
U32LE(n) == <<n % 256, (n \div 256) % 256, (n \div 65536) % 256, (n \div 16777216) % 256>>
U32BE(n) == <<(n \div 16777216) % 256, (n \div 65536) % 256, (n \div 256) % 256, n % 256>>

\* int.from_bytes(b, 'big')
RECURSIVE IntFromBytes(_)
IntFromBytes(b) ==
    IF Len(b) = 0 THEN 0 ELSE 256 * IntFromBytes(Take(b, Len(b) - 1)) + b[Len(b)]

\* ---- zlib. The stream compress writes is modelled in the format's stored
\* form: the two header bytes of level 9, one final stored block (its length and
\* the length's complement, low byte first, then the data) and the Adler-32
\* checksum of the data, high byte first. The library chooses a denser block
\* encoding of the same stream; decompress is its inverse on either.
\* the sums of Adler-32: A is 1 plus the bytes, B the sum of the values A takes
\* after each byte, both modulo 65521
RECURSIVE WeightedSum(_, _, _, _)
WeightedSum(b, lo, hi, w) ==
    IF lo > hi THEN 0
    ELSE IF lo = hi THEN (IF w THEN Len(b) - lo + 1 ELSE 1) * b[lo]
    ELSE LET m == (lo + hi) \div 2
         IN WeightedSum(b, lo, m, w) + WeightedSum(b, m + 1, hi, w)
AdlerA(b) == (1 + WeightedSum(b, 1, Len(b), FALSE)) % 65521
AdlerB(b) == (Len(b) + WeightedSum(b, 1, Len(b), TRUE)) % 65521
Adler32(b) ==
    <<AdlerB(b) \div 256, AdlerB(b) % 256, AdlerA(b) \div 256, AdlerA(b) % 256>>

U16LE(n) == <<n % 256, (n \div 256) % 256>>

\* zlib.compress(raw, 9)
compress(raw) ==
    <<120, 218, 1>> \o U16LE(Len(raw)) \o U16LE(65535 - Len(raw)) \o raw \o Adler32(raw)

\* zlib.decompress(data): [ok, data], ok false for zlib.error
decompress(data) ==
    LET n == Len(data) - 11
        body == SubSeq(data, 8, 7 + n)
    IN IF \/ n < 0
          \/ data[1] % 16 # 8
          \/ (data[1] * 256 + data[2]) % 31 # 0
          \/ (data[2] \div 32) % 2 # 0
          \/ data[3] # 1
          \/ SubSeq(data, 4, 5) # U16LE(n)
          \/ SubSeq(data, 6, 7) # U16LE(65535 - n)
          \/ SubSeq(data, 8 + n, 11 + n) # Adler32(body)
       THEN [ok |-> FALSE, data |-> <<>>]
       ELSE [ok |-> TRUE, data |-> body]

\* ---- pathlib: a path is a directory and a name
Path(dir, name) == [dir |-> dir, name |-> name]
NoPath == Path("none", <<>>)

\* PurePath.suffix
Suffix(name) ==
    LET i == RFindChar(name, ".")
    IN IF 1 < i /\ i < Len(name) THEN Drop(name, i - 1) ELSE <<>>

\* PurePath.with_suffix(suffix), suffix not empty
with_suffix(path, suffix) ==
    [path EXCEPT !.name = Take(path.name, Len(path.name) - Len(Suffix(path.name))) \o suffix]

\* ---- the text json.dumps writes for a sequence of tokens, and its reading
Hex4(n) ==
    <<HexDigits[((n \div 4096) % 16) + 1], HexDigits[((n \div 256) % 16) + 1],
      HexDigits[((n \div 16) % 16) + 1], HexDigits[(n % 16) + 1]>>
IsHex(c) == \E k \in 1 .. 16 : HexDigits[k] = c
HexDigitVal(c) == (CHOOSE k \in 1 .. 16 : HexDigits[k] = c) - 1

\* one character of a string, escaped as ensure_ascii=True escapes it
JEscapeChar(c) ==
    CASE c = "\"" -> <<"\\", "\"">>
      [] c = "\\" -> <<"\\", "\\">>
      [] c = "\n" -> <<"\\", "n">>
      [] IsPrintable(c) /\ c \notin {"\"", "\\"} -> <<c>>
      [] OTHER -> <<"\\", "u">> \o Hex4(CodePoint(c))

RECURSIVE JEscape(_)
JEscape(s) == IF Len(s) = 0 THEN <<>> ELSE JEscapeChar(s[1]) \o JEscape(Drop(s, 1))

JTokenText(t) ==
    CASE t.k = "punct" -> <<t.c>>
      [] t.k = "int" -> Dec(t.n)
      [] t.k = "str" -> <<"\"">> \o JEscape(t.s) \o <<"\"">>
RECURSIVE JTextRange(_, _, _)
JTextRange(ts, lo, hi) ==
    IF lo > hi THEN <<>>
    ELSE IF lo = hi THEN JTokenText(ts[lo])
    ELSE LET m == (lo + hi) \div 2
         IN JTextRange(ts, lo, m) \o JTextRange(ts, m + 1, hi)
JText(ts) == JTextRange(ts, 1, Len(ts))

\* json.loads of a text: [ok, v, i] is the value read from position i on and the
\* position after it (the literals true, false, null and numbers with a
\* fraction or an exponent, which no node holds, are not read)
RECURSIVE JSkip(_, _)
JSkip(s, i) == IF i <= Len(s) /\ s[i] \in {" ", "\n", "\t", "\r"} THEN JSkip(s, i + 1) ELSE i

\* the end of the string that starts after the quote before position i:
\* [ok, s, i], i the position after the closing quote
RECURSIVE ScanString(_, _, _)
ScanString(s, i, acc) ==
    IF i > Len(s) THEN [ok |-> FALSE, s |-> acc, i |-> i]
    ELSE IF s[i] = "\"" THEN [ok |-> TRUE, s |-> acc, i |-> i + 1]
    ELSE IF s[i] = "\\"
         THEN IF i + 1 > Len(s) THEN [ok |-> FALSE, s |-> acc, i |-> i]
              ELSE IF s[i + 1] \in {"\"", "\\"}
                   THEN ScanString(s, i + 2, Append(acc, s[i + 1]))
              ELSE IF s[i + 1] = "n" THEN ScanString(s, i + 2, Append(acc, "\n"))
              ELSE IF /\ s[i + 1] = "u"
                      /\ i + 5 <= Len(s)
                      /\ \A k \in 2 .. 5 : IsHex(Lower(s[i + k]))
                   THEN ScanString(s, i + 6,
                            Append(acc, Chr(4096 * HexDigitVal(Lower(s[i + 2]))
                                            + 256 * HexDigitVal(Lower(s[i + 3]))
                                            + 16 * HexDigitVal(Lower(s[i + 4]))
                                            + HexDigitVal(Lower(s[i + 5])))))
              ELSE [ok |-> FALSE, s |-> acc, i |-> i]
    ELSE IF CodePoint(s[i]) < 32 THEN [ok |-> FALSE, s |-> acc, i |-> i]
    ELSE ScanString(s, i + 1, Append(acc, s[i]))

\* the end of the run of digits from position i on
RECURSIVE JDigitsEnd(_, _)
JDigitsEnd(s, i) == IF i <= Len(s) /\ IsDigit(s[i]) THEN JDigitsEnd(s, i + 1) ELSE i

ScanNumber(s, i) ==
    LET neg == s[i] = "-"
        b == IF neg THEN i + 1 ELSE i
        e == JDigitsEnd(s, b)
        v == DigitsValue(SubSeq(s, b, e - 1))
    IN IF e = b \/ (e - b > 1 /\ s[b] = "0") \/ (e <= Len(s) /\ s[e] \in {".", "e", "E"})
       THEN JFail(i)
       ELSE [ok |-> TRUE, v |-> JInt(IF neg THEN -v ELSE v), i |-> e]

RECURSIVE ScanValue(_, _), ScanItems(_, _, _), ScanPairs(_, _, _)
ScanValue(s, i0) ==
    LET i == JSkip(s, i0)
    IN IF i > Len(s) THEN JFail(i)
       ELSE IF s[i] = "\""
            THEN LET str == ScanString(s, i + 1, <<>>)
                 IN IF str.ok THEN [ok |-> TRUE, v |-> JStr(str.s), i |-> str.i] ELSE JFail(i)
       ELSE IF s[i] = "["
            THEN LET j == JSkip(s, i + 1)
                 IN IF j <= Len(s) /\ s[j] = "]"
                    THEN [ok |-> TRUE, v |-> JList(<<>>), i |-> j + 1]
                    ELSE ScanItems(s, j, <<>>)
       ELSE IF s[i] = "{"
            THEN LET j == JSkip(s, i + 1)
                 IN IF j <= Len(s) /\ s[j] = "}"
                    THEN [ok |-> TRUE, v |-> JDict(EmptyDict), i |-> j + 1]
                    ELSE ScanPairs(s, j, EmptyDict)
       ELSE IF s[i] = "-" \/ IsDigit(s[i]) THEN ScanNumber(s, i)
       ELSE JFail(i)
ScanItems(s, i, acc) ==
    LET r == ScanValue(s, i)
        j == JSkip(s, r.i)
    IN IF ~r.ok THEN r
       ELSE IF j > Len(s) THEN JFail(j)
       ELSE IF s[j] = "," THEN ScanItems(s, j + 1, Append(acc, r.v))
       ELSE IF s[j] = "]" THEN [ok |-> TRUE, v |-> JList(Append(acc, r.v)), i |-> j + 1]
       ELSE JFail(j)
ScanPairs(s, i0, acc) ==
    LET i == JSkip(s, i0)
        key == ScanString(s, i + 1, <<>>)
        c == JSkip(s, key.i)
        r == ScanValue(s, c + 1)
        j == JSkip(s, r.i)
        d == DictSet(acc, key.s, r.v)
    IN IF i > Len(s) \/ s[i] # "\"" THEN JFail(i)
       ELSE IF ~key.ok \/ c > Len(s) \/ s[c] # ":" THEN JFail(c)
       ELSE IF ~r.ok THEN r
       ELSE IF j > Len(s) THEN JFail(j)
       ELSE IF s[j] = "," THEN ScanPairs(s, j + 1, d)
       ELSE IF s[j] = "}" THEN [ok |-> TRUE, v |-> JDict(d), i |-> j + 1]
       ELSE JFail(j)

\* json.dumps(...).encode() of the tokens, and json.loads of bytes
CanonBytes(ts) == Utf8Encode(JText(ts))
LoadsEnd(s, r) == IF r.ok /\ JSkip(s, r.i) = Len(s) + 1 THEN r ELSE JFail(r.i)
LoadsText(text) == IF ~text.ok THEN JFail(0) ELSE LoadsEnd(text.s, ScanValue(text.s, 1))
json_loads(bytes) == LoadsText(Utf8Decode(bytes))

\* ------------------------------------------------------- the pipeline's steps
Canonicalize ==
    /\ pc = "source"
    /\ canon' = canonicalize(src)
    /\ pc' = "canon"
    /\ UNCHANGED <<src, prog, perr, bc, hexout>>
    /\ UNCHANGED maskVars
    /\ UNCHANGED <<recanon, asmout>>

ParseMinimal ==
    /\ pc = "canon"
    /\ LET r == parse_minimal(canon)
       IN /\ prog' = r.prog
          /\ perr' = r.err
          /\ pc' = IF r.err = "none" THEN "parsed" ELSE "failed"
    /\ UNCHANGED <<src, canon, bc, hexout>>
    /\ UNCHANGED maskVars
    /\ UNCHANGED <<recanon, asmout>>

\* main prints to_assembly(bc), then to_bytes(bc)
ToAssembly ==
    /\ pc = "compiled"
    /\ asmout' = to_assembly(bc)
    /\ pc' = "listed"
    /\ UNCHANGED <<src, canon, prog, perr, bc, hexout, recanon>>
    /\ UNCHANGED maskVars

ToBytes ==
    /\ pc = "listed"
    /\ hexout' = to_bytes(bc)
    /\ pc' = "done"
    /\ UNCHANGED <<src, canon, prog, perr, bc>>
    /\ UNCHANGED maskVars
    /\ UNCHANGED <<recanon, asmout>>

\* ------------------------------------- the state of a part that is not run
MaskIdle ==
    /\ dim = 0 /\ p = 0 /\ cond = XEqConst(0, 0) /\ bs = {} /\ idx = 0
    /\ coords = <<>> /\ frames = <<>> /\ mpc = "idle" /\ merr = "none"
    /\ visited = <<>> /\ indices = <<>>

\* the pipeline is not running
PipeIdle ==
    /\ src = <<>> /\ canon = <<>> /\ prog = NoProgram /\ perr = "none"
    /\ bc = <<>> /\ hexout = <<>> /\ pc = "idle"
    /\ recanon = <<>> /\ asmout = <<>>

NoResult == [err |-> "none", val |-> NoneV]

EvalIdle ==
    /\ esrc = <<>> /\ ast = NoNode /\ env0 = <<>> /\ env = <<>>
    /\ res = NoResult /\ epc = "idle"
    /\ pytext = <<>> /\ pyres = NoResult

AnyIdle ==
    /\ apc = "idle" /\ ain = NoPath /\ araw = <<>> /\ apkg = NoPath
    /\ abad = FALSE /\ aerr = "none" /\ arestored = NoPath

PyIdle ==
    /\ bpc = "idle" /\ bmod = <<>> /\ bpkg = NoPath /\ bbad = FALSE
    /\ berr = "none" /\ beval = FALSE /\ zpacked = NoNode /\ zunpacked = NoNode
    /\ brun = NoResult

PackIdle ==
    /\ fs = <<>> /\ optimize = FALSE /\ wrote = {} /\ inflated = {} /\ foreign = {}
    /\ AnyIdle
    /\ PyIdle

HashIdle ==
    /\ hop = "INT" /\ hargs = <<>> /\ hmeta = EmptyDict
    /\ hnode = NoNode /\ hother = NoNode /\ hchange = "none" /\ hpc = "idle"

\* ------------------------------------------------------------ drawn sources
T_psi == <<"p", "s", "i", " ", ":", ":", " ">>
T_val == <<"v", " ", ":", ":", " ", "{", " ">>
T_in == <<"x", " ", "i", "n", " ">>
T_colon == <<" ", ":", " ">>
T_eq == <<" ", "=", " ">>
T_close == <<" ", "}">>
NL == <<"\n">>

Layout(q, d) == <<"f">> \o Dec(q) \o <<"^">> \o Dec(d)
Line1(q, d) == T_psi \o Layout(q, d)
Line2(q, d, k, c) ==
    T_val \o T_in \o Layout(q, d) \o T_colon \o <<"x">> \o Dec(k) \o T_eq \o Dec(c) \o T_close

L_grad == <<"g", "r", "a", "d">>
L_project == <<"p", "r", "o", "j", "e", "c", "t">>
L_goal == <<"g", "o", "a", "l">>
L_p_v == <<"p", "_", "v">>
L_vdash == <<"v", "d", "a", "s", "h">>

StepLines == {L_grad, L_project, L_goal, L_p_v, L_vdash}

RECURSIVE SeqsUpTo(_, _)
SeqsUpTo(S, n) ==
    IF n = 0 THEN {<<>>}
    ELSE LET shorter == SeqsUpTo(S, n - 1)
         IN shorter \cup {Append(t, x) : t \in {u \in shorter : Len(u) = n - 1}, x \in S}

\* the example source of the specification's end-to-end property
ExampleSource ==
    JoinWith(<<Line1(3, 3), Line2(3, 3, 1, 0), L_grad, L_project, L_goal>>, NL)

\* the same program with the step lines spelled by the parser's markers
MarkerSource ==
    JoinWith(<<Line1(3, 3), Line2(3, 3, 1, 0), L_grad, L_p_v, L_vdash>>, NL)

\* sources over every small lattice and validator, in and out of range
ValidatorSource(q, d, k, c) == JoinWith(<<Line1(q, d), Line2(q, d, k, c), L_grad>>, NL)
ValidatorSources ==
    {ValidatorSource(q, d, k, c) :
        q \in 2 .. MaxP, d \in 1 .. MaxDim, k \in 0 .. (MaxDim + 1), c \in -1 .. MaxP}

\* sources with every short run of step lines
StepSources ==
    {JoinWith(<<Line1(2, 1), Line2(2, 1, 1, 0)>> \o steps, NL) :
        steps \in SeqsUpTo(StepLines, MaxSteps)}

\* sources whose line 1 has the separator spaced, unspaced or single, and a
\* layout with or without the prefix and the caret; alone and with a line 2
Separators == {<<" ", ":", ":", " ">>, <<" ", ":", " ">>, <<":", ":">>, <<" ", ":", ":">>}
Line1Shape(sep, pre, car) == <<"p", "s", "i">> \o sep \o pre \o <<"3">> \o car \o <<"3">>
Line1Shapes ==
    {Line1Shape(sep, pre, car) : sep \in Separators, pre \in {<<"f">>, <<>>}, car \in {<<"^">>, <<>>}}
Line1Sources ==
    Line1Shapes \cup {JoinWith(<<l1, Line2(3, 3, 1, 0), L_grad>>, NL) : l1 \in Line1Shapes}

\* a source whose layout names a field of no values: int() accepts the 0
ZeroFieldSource == JoinWith(<<Line1(0, 2), Line2(0, 2, 1, 0), L_grad>>, NL)

\* step lines that hold two markers, a marker inside other text, or none
L_p_v_grad == <<"P", "_", "V", " ", "G", "r", "a", "d">>
L_vdash_p_v == <<"v", "d", "a", "s", "h", " ", "p", "_", "v">>
L_vdash_nabla == <<"<turnstile>", " ", "<nabla>", "L">>
L_turnstile == <<"a", "<turnstile>", "b">>
L_other == <<"x", " ", "=", " ", "1">>
PriorityLines == {L_p_v_grad, L_vdash_p_v, L_vdash_nabla, L_turnstile, L_other}
PrioritySources ==
    {JoinWith(<<Line1(2, 1), Line2(2, 1, 1, 0)>> \o steps, NL) :
        steps \in SeqsUpTo(PriorityLines, 2)}

\* second lines without the colon, without the brace, without an equality, with
\* the equality outside the braces, written tight, and with two equalities
L2_NoColon == <<"v", " ", "{", " ", "x", "1", " ", "=", " ", "0", " ", "}">>
L2_NoBrace == <<"v", " ", ":", ":", " ", "{", " ", "x", " ", "i", "n", " ", "f", "3", "^", "3", " ", ":", " ", "x", "1", " ", "=", " ", "0">>
L2_OtherName == <<"v", " ", ":", ":", " ", "{", " ", "x", " ", "i", "n", " ", "f", "3", "^", "3", " ", ":", " ", "y", "1", " ", "=", " ", "0", " ", "}">>
L2_NoAxis == <<"v", " ", ":", ":", " ", "{", " ", "x", " ", "i", "n", " ", "f", "3", "^", "3", " ", ":", " ", "x", " ", "=", " ", "0", " ", "}">>
L2_SplitMinus == <<"v", " ", ":", ":", " ", "{", " ", "x", " ", "i", "n", " ", "f", "3", "^", "3", " ", ":", " ", "x", "1", " ", "=", " ", "-", " ", "1", " ", "}">>
L2_AfterBrace == <<"v", " ", ":", ":", " ", "{", " ", "x", " ", "i", "n", " ", "f", "3", "^", "3", " ", "}", " ", "x", "1", " ", "=", " ", "0">>
L2_BeforeColon == <<"x", "1", " ", "=", " ", "0", " ", ":", " ", "{", " ", "}">>
L2_BraceFirst == <<"v", " ", "}", " ", ":", " ", "x", "1", " ", "=", " ", "0">>
L2_Tight == <<"v", " ", ":", ":", " ", "{", "x", " ", "i", "n", " ", "f", "3", "^", "3", ":", "x", "2", "=", "-", "1", "}">>
L2_Two == <<"v", " ", ":", ":", " ", "{", " ", "x", "1", " ", "=", " ", "0", " ", ",", " ", "x", "2", " ", "=", " ", "1", " ", "}">>
L2_TwoBraces == <<"v", " ", ":", ":", " ", "{", " ", "x", " ", "i", "n", " ", "f", "3", "^", "3", " ", ":", " ", "x", "1", " ", "=", " ", "0", " ", "}", " ", "x", "2", " ", "=", " ", "1", " ", "}">>
SecondLines ==
    {L2_NoColon, L2_NoBrace, L2_OtherName, L2_NoAxis, L2_SplitMinus, L2_AfterBrace,
     L2_BeforeColon, L2_BraceFirst, L2_Tight, L2_Two, L2_TwoBraces}
SecondLineSources == {JoinWith(<<Line1(3, 3), l2, L_grad>>, NL) : l2 \in SecondLines}

\* str.upper() on one ASCII character
Upper(c) ==
    IF \E k \in 1 .. 26 : LowerCase[k] = c
    THEN UpperCase[CHOOSE k \in 1 .. 26 : LowerCase[k] = c] ELSE c

\* the lines of MarkerSource with layout noise: the letters in capitals, every
\* space replaced by a run of white space w, white space around each line, and
\* a blank or comment line nl put in after line j (before line 1 when j = 0)
MarkerLines == <<Line1(3, 3), Line2(3, 3, 1, 0), L_grad, L_p_v, L_vdash>>
Recase(ln, up) == IF up THEN [i \in 1 .. Len(ln) |-> Upper(ln[i])] ELSE ln
RECURSIVE Respace(_, _)
Respace(ln, w) ==
    IF Len(ln) = 0 THEN <<>>
    ELSE (IF ln[1] = " " THEN w ELSE <<ln[1]>>) \o Respace(Drop(ln, 1), w)
Padded(ln, w) == IF w = <<" ">> THEN ln ELSE w \o ln \o w
InsertAt(ls, j, nl) == Take(ls, j) \o <<nl>> \o Drop(ls, j)
WhiteRuns == {<<" ">>, <<" ", " ">>, <<"\t">>, <<" ", "<nbsp>", "\t">>}
NoiseLines ==
    {<<>>, <<" ", "\t">>, <<"/", "/", " ", "g", "r", "a", "d">>, <<" ", " ", "/", "/", "x", "1", " ", "=", " ", "2", " ", "}">>, <<"/", "/", "p", "s", "i", " ", ":", ":", " ", "f", "2", "^", "2">>}
Noisy(up, w, j, nl) ==
    JoinWith(InsertAt([k \in 1 .. Len(MarkerLines) |->
                          Padded(Respace(Recase(MarkerLines[k], up), w), w)], j, nl), NL)
NoisySources ==
    {Noisy(up, w, j, nl) :
        up \in BOOLEAN, w \in WhiteRuns, j \in 0 .. Len(MarkerLines), nl \in NoiseLines}

Sources ==
    NoisySources \cup
    {ExampleSource, MarkerSource, ZeroFieldSource}
    \cup ValidatorSources \cup StepSources \cup Line1Sources \cup PrioritySources
    \cup SecondLineSources

\* Programs handed to compile_to_ir directly: every short list of steps, a step
\* of no known kind among them, over a field of two values and over an empty one
StepKinds ==
    {Step("grad", <<>>), Step("project", <<>>), Step("goal", <<Frac(1, 100), Frac(99, 100)>>),
     Step("noop", <<>>)}
\* a Program over a lattice of 3^4 = 81 cells, its validator on the last axis:
\* a mask with bits at positions 64 and above
WideProgram == Program(PsiDecl(3, 4), ValDecl("x_eq_const", <<3, 0>>), <<>>)
Programs ==
    {Program(PsiDecl(q, 1), ValDecl("x_eq_const", <<0, 0>>), steps) :
        q \in {0, 2}, steps \in SeqsUpTo(StepKinds, MaxSteps)}
    \cup {WideProgram}

Init ==
    /\ \/ src \in Sources /\ prog = NoProgram /\ pc = "source"
       \/ src = <<>> /\ prog \in Programs /\ pc = "parsed"
    /\ canon = <<>> /\ perr = "none"
    /\ bc = <<>> /\ hexout = <<>>
    /\ recanon = <<>> /\ asmout = <<>>
    /\ MaskIdle
    /\ EvalIdle
    /\ PackIdle
    /\ HashIdle

NextPipe ==
    \/ Canonicalize
    \/ ParseMinimal
    \/ CompileBegin
    \/ RecLeaf
    \/ RecLoop
    \/ RecReturn
    \/ CompileEnd
    \/ CompileRaise
    \/ ToAssembly
    \/ ToBytes

Next == NextPipe /\ UNCHANGED <<evalVars, packVars, hashVars>>

Spec == Init /\ [][Next]_vars

Compiled == pc \in {"compiled", "listed", "done"}

Opcodes(code) == [k \in 1 .. Len(code) |-> code[k].op]

\* the original statement of C1: the example source compiles to the eight
\* instructions INIT, INIT, SEED, VMASK, GRAD, PROJ, METRICS, HALT.
C1_Original ==
    (Compiled /\ src = ExampleSource) =>
        Opcodes(bc) = <<OP_INIT, OP_INIT, OP_SEED, OP_VMASK,
                        OP_GRAD, OP_PROJ, OP_METRICS, OP_HALT>>

\* C1 (amended): the example source compiles, without error, to the five
\* instructions INIT(p=3), INIT(dim=3), SEED, VMASK, GRAD: the line 'grad' is the
\* grad step, the lines 'project' and 'goal' hold no marker and give no step.
\* With the step lines 'grad', 'p_v', 'vdash' the same program compiles to the
\* eight instructions INIT(p=3), INIT(dim=3), SEED, VMASK, GRAD, PROJ, METRICS, HALT.
C1_ExampleCompiles ==
    /\ src \in {ExampleSource, MarkerSource} => pc # "failed"
    /\ (Compiled /\ src \in {ExampleSource, MarkerSource}) =>
          /\ bc[1] = Instr(OP_INIT, Zero, Zero, Zero, BitsOf(3))
          /\ bc[2] = Instr(OP_INIT, Zero, Frac(3, 1), Zero, {})
    /\ (Compiled /\ src = ExampleSource) =>
          /\ Opcodes(bc) = <<OP_INIT, OP_INIT, OP_SEED, OP_VMASK, OP_GRAD>>
          /\ prog.steps = <<Step("grad", <<>>)>>
    /\ (Compiled /\ src = MarkerSource) =>
          /\ Opcodes(bc) = <<OP_INIT, OP_INIT, OP_SEED, OP_VMASK,
                             OP_GRAD, OP_PROJ, OP_METRICS, OP_HALT>>
          /\ Opcodes(bc) = <<1, 1, 2, 3, 4, 5, 6, 7>>

C1_Witness == pc = "done" /\ src = ExampleSource /\ Len(bc) = 5

\* ---- decoding the hex text, to state what to_bytes wrote
HexVal(c) == (CHOOSE k \in 1 .. 16 : HexDigits[k] = c) - 1
\* byte j (from 1) of the hex text h
ByteAt(h, j) == 16 * HexVal(h[2 * j - 1]) + HexVal(h[2 * j])
\* the n bytes of h that start at byte offset off (from 0)
BytesAt(h, off, n) == [j \in 1 .. n |-> ByteAt(h, off + j)]
\* the positions of the set bits of a little-endian field
BitsOfLE(bytes) ==
    {b \in 0 .. (8 * Len(bytes) - 1) : (bytes[(b \div 8) + 1] \div Pow(2, b % 8)) % 2 = 1}

\* the IEEE 754 single precision encodings of 0.0, 1.0, 0.1 and of small integers
F32Known(fr) ==
    CASE fr = Frac(0, 1) -> <<0, 0, 0, 0>>
      [] fr = Frac(1, 1) -> <<0, 0, 128, 63>>
      [] fr = Frac(1, 10) -> <<205, 204, 204, 61>>
      [] fr = Frac(2, 1) -> <<0, 0, 0, 64>>
      [] fr = Frac(3, 1) -> <<0, 0, 64, 64>>
      [] fr = Frac(4, 1) -> <<0, 0, 128, 64>>

\* the original statement of C2: a bytecode of n instructions encodes to 16*n
\* bytes, 32*n hex digits.
C2_Original == pc = "done" => Len(hexout) = 32 * Len(bc)

\* C2 (amended): to_bytes serializes every instruction to a fixed 21-byte
\* little-endian record (1 opcode byte, the f32 operands a, b, c in that order,
\* one u64 integer operand): n instructions give 21*n bytes (42*n hex digits) and
\* record k occupies bytes [21k, 21k+21).
C2_Records21 ==
    pc = "done" =>
        /\ Len(hexout) = 42 * Len(bc)
        /\ \A k \in 0 .. (Len(bc) - 1) :
              LET ins == bc[k + 1]
              IN /\ ByteAt(hexout, 21 * k + 1) = ins.op
                 /\ BytesAt(hexout, 21 * k + 1, 4) = F32Known(ins.a)
                 /\ BytesAt(hexout, 21 * k + 5, 4) = F32Known(ins.b)
                 /\ BytesAt(hexout, 21 * k + 9, 4) = F32Known(ins.c)
                 /\ BitsOfLE(BytesAt(hexout, 21 * k + 13, 8)) = ins.i \cap (0 .. 63)

C2_Witness ==
    /\ pc = "done" /\ src = MarkerSource
    /\ Len(bc) = 8 /\ Len(hexout) = 336
    /\ BytesAt(hexout, 84, 21) = <<4, 0, 0, 128, 63, 0, 0, 128, 63, 205, 204, 204, 61,
                                   0, 0, 0, 0, 0, 0, 0, 0>>

\* C5: for a validator x<k> = <c> with 1 <= k <= dim and 0 <= c < p the source
\* compiles, and the set bits of the VMASK instruction are exactly the p^(dim-1)
\* lattice indices whose k-th coordinate equals c; for x1 = 0 over f3^3 these are
\* the 9 indices 0..8.
C5_ValidatorMask ==
    /\ \A q \in 2 .. MaxP, d \in 1 .. MaxDim :
          \A k \in 1 .. d, c \in 0 .. (q - 1) :
              src = ValidatorSource(q, d, k, c) =>
                  /\ pc # "failed"
                  /\ Compiled =>
                        /\ bc[4].op = OP_VMASK
                        /\ bc[4].i = {i \in Range(Pow(q, d)) : TupleAt(i, d, q)[k] = c}
                        /\ Cardinality(bc[4].i) = Pow(q, d - 1)
    /\ (Compiled /\ src \in {ExampleSource, MarkerSource}) => bc[4].i = 0 .. 8

C5_Witness ==
    /\ pc = "done" /\ src = ValidatorSource(3, 3, 2, 1)
    /\ bc[4].i = {3, 4, 5, 12, 13, 14, 21, 22, 23}

\* the number of steps of that kind
CountOp(steps, op) == Cardinality({k \in 1 .. Len(steps) : steps[k].op = op})

\* the opcode a step of a known kind starts with
StepOpcode(op) ==
    CASE op = "grad" -> OP_GRAD
      [] op = "project" -> OP_PROJ
      [] op = "goal" -> OP_METRICS

KnownSteps(steps) == SelectSeq(steps, LAMBDA st : st.op \in {"grad", "project", "goal"})

\* C14: what compile_to_ir returns starts with INIT(p), INIT(dim), SEED,
\* VMASK(mask); after them come, in the order of the steps, one GRAD(1.0, 1.0, 0.1)
\* per grad step, one PROJ per project step and METRICS directly followed by HALT
\* per goal step; its length is 4 + #grad + #project + 2*#goal and every opcode
\* is one of the seven kinds.
C14_LinearSequence ==
    Compiled =>
        /\ bc[1] = Instr(OP_INIT, Zero, Zero, Zero, BitsOf(prog.psi.p))
        /\ bc[2] = Instr(OP_INIT, Zero, Frac(prog.psi.dim, 1), Zero, {})
        /\ bc[3] = InstrOp(OP_SEED)
        /\ bc[4] = Instr(OP_VMASK, Zero, Zero, Zero, bs)
        /\ Len(bc) = 4 + CountOp(prog.steps, "grad") + CountOp(prog.steps, "project")
                       + 2 * CountOp(prog.steps, "goal")
        /\ \A k \in 1 .. Len(bc) :
              /\ bc[k].op \in {OP_INIT, OP_SEED, OP_VMASK, OP_GRAD, OP_PROJ, OP_METRICS, OP_HALT}
              /\ bc[k].op \in 1 .. 7
              /\ k > 4 => bc[k].op \in {OP_GRAD, OP_PROJ, OP_METRICS, OP_HALT}
              /\ bc[k].op = OP_GRAD => bc[k] = Instr(OP_GRAD, Frac(1, 1), Frac(1, 1), Frac(1, 10), {})
              /\ bc[k].op = OP_METRICS => (k < Len(bc) /\ bc[k + 1].op = OP_HALT)
              /\ bc[k].op = OP_HALT => bc[k - 1].op = OP_METRICS
        /\ LET tail == SelectSeq(SubSeq(bc, 5, Len(bc)), LAMBDA ins : ins.op # OP_HALT)
               known == KnownSteps(prog.steps)
           IN /\ Len(tail) = Len(known)
              /\ \A k \in 1 .. Len(known) : tail[k].op = StepOpcode(known[k].op)

C14_Witness ==
    /\ pc = "compiled"
    /\ Opcodes(bc) = <<OP_INIT, OP_INIT, OP_SEED, OP_VMASK, OP_METRICS, OP_HALT, OP_GRAD>>
    /\ Len(prog.steps) = 3 /\ prog.steps[2].op = "noop"

\* the mnemonic of an opcode
Mnemonic(op) ==
    CASE op = OP_INIT -> <<"I", "N", "I", "T">>
      [] op = OP_VMASK -> <<"V", "M", "A", "S", "K">>
      [] op = OP_GRAD -> <<"G", "R", "A", "D">>
      [] OTHER -> OtherName(op)

\* C16, as claimed: the listing has one line per instruction, the lines
\* separated by a newline character, and line k starts with k as two decimal
\* digits, ': ' and the mnemonic of instruction k.
C16_OneLinePerInstruction ==
    pc \in {"listed", "done"} =>
        /\ Len(SplitOn(asmout, "\n")) = Len(bc)
        /\ \A k \in 1 .. Len(bc) :
              k <= Len(SplitOn(asmout, "\n")) =>
                  StartsWith(SplitOn(asmout, "\n")[k],
                             Pad2(k - 1) \o <<":", " ">> \o Mnemonic(bc[k].op))

\* the non-empty lines of the canonical text, and the words of the first
CanonLines == SelectNonEmpty(SplitOn(canon, "\n"))
Line1Words == SplitWS(CanonLines[1])
LayoutToken == Line1Words[Len(Line1Words)]
ParseReturned == src # <<>> /\ pc \notin {"idle", "source", "canon"}

\* C17: parse_minimal fails fast and in one order. Fewer than two non-empty
\* lines give 'program too short'; otherwise a line 1 with no '::' word gives
\* the separator error; otherwise a last word of line 1 without the 'f' prefix
\* gives the prefix error; otherwise a last word without '^' gives the caret
\* error. The four messages differ, each is reported only when the checks
\* before it passed, and no Program is returned with any of them.
C17_FailFastOrder ==
    /\ Cardinality({MsgTooShort, MsgSeparator, MsgPrefix, MsgCaret}) = 4
    /\ ParseReturned =>
          /\ (perr = MsgTooShort) <=> (Len(CanonLines) < 2)
          /\ (perr = MsgSeparator) <=>
                (Len(CanonLines) >= 2 /\ ~HasSeparator(Line1Words))
          /\ (perr = MsgPrefix) <=>
                (/\ Len(CanonLines) >= 2 /\ HasSeparator(Line1Words)
                 /\ ~StartsWith(LayoutToken, <<"f">>))
          /\ (perr = MsgCaret) <=>
                (/\ Len(CanonLines) >= 2 /\ HasSeparator(Line1Words)
                 /\ StartsWith(LayoutToken, <<"f">>)
                 /\ ~Contains(LayoutToken, <<"^">>))
          /\ perr \in {MsgTooShort, MsgSeparator, MsgPrefix, MsgCaret} =>
                pc = "failed" /\ prog = NoProgram

\* the caret error, reached with two lines, the separator and the prefix
C17_Witness ==
    /\ pc = "failed" /\ perr = MsgCaret /\ prog = NoProgram
    /\ Len(CanonLines) >= 2 /\ HasSeparator(Line1Words) /\ StartsWith(LayoutToken, <<"f">>)

\* line 1 contains '::' and ends with the layout text of p = q and dim = d
DocumentedLine1(q, d) ==
    /\ Len(CanonLines) >= 2
    /\ Contains(CanonLines[1], <<":", ":">>)
    /\ Len(CanonLines[1]) >= Len(Layout(q, d))
    /\ SubSeq(CanonLines[1], Len(CanonLines[1]) - Len(Layout(q, d)) + 1, Len(CanonLines[1]))
          = Layout(q, d)

\* C20, as claimed: a line 1 that contains '::' and ends with f<p>^<dim> passes
\* the checks of line 1, 'psi::f3^3' and 'psi ::f3^3' included, and the Program
\* returned carries PsiDecl(p, dim).
C20_DocumentedLine1Accepted ==
    \A q \in 2 .. MaxP, d \in 1 .. MaxDim :
        (ParseReturned /\ DocumentedLine1(q, d)) =>
            /\ perr \notin {MsgSeparator, MsgPrefix, MsgCaret}
            /\ pc # "failed" => prog.psi = PsiDecl(q, d)

\* the kind of step the markers of a line select: gradient before projection
\* before goal, "none" when the line holds no marker
StepKindOf(ln) ==
    IF Contains(ln, <<"<nabla>", "l">>) \/ Contains(ln, <<"g", "r", "a", "d">>) THEN "grad"
    ELSE IF Contains(ln, <<"p", "_", "v">>) THEN "project"
    ELSE IF Contains(ln, <<"<turnstile>">>) \/ Contains(ln, <<"v", "d", "a", "s", "h">>)
    THEN "goal"
    ELSE "none"

\* steps are the steps of the marked lines among lines, one each, in their order
RECURSIVE StepsFollowLines(_, _)
StepsFollowLines(steps, lines) ==
    IF Len(lines) = 0 THEN Len(steps) = 0
    ELSE IF StepKindOf(lines[1]) = "none" THEN StepsFollowLines(steps, Drop(lines, 1))
    ELSE /\ Len(steps) > 0
         /\ steps[1].op = StepKindOf(lines[1])
         /\ steps[1].args = IF steps[1].op = "goal"
                            THEN <<Frac(1, 100), Frac(99, 100)>> ELSE <<>>
         /\ StepsFollowLines(Drop(steps, 1), Drop(lines, 1))

\* C24: every line after line 2 gives at most one Step, chosen by the first of
\* gradient, projection, goal whose marker the line contains (goal with the
\* thresholds 0.01 and 0.99); a line with no marker gives none and no error; the
\* steps keep the order of their lines and are no more than the lines.
C24_OneStepPerLine ==
    (ParseReturned /\ perr = "none") =>
        /\ Len(prog.steps) <= Len(CanonLines) - 2
        /\ StepsFollowLines(prog.steps, Drop(CanonLines, 2))
        /\ Len(prog.steps) =
              Cardinality({k \in 3 .. Len(CanonLines) : StepKindOf(CanonLines[k]) # "none"})

\* a line with the goal and the projection marker, then a line with none
C24_Witness ==
    /\ ParseReturned /\ perr = "none"
    /\ Len(CanonLines) = 4
    /\ StepKindOf(CanonLines[3]) = "project" /\ Contains(CanonLines[3], <<"v", "d", "a", "s", "h">>)
    /\ StepKindOf(CanonLines[4]) = "none"
    /\ prog.steps = <<Step("project", <<>>)>>

\* the text of a line between its first ':' and its last '}'
Between(L2) ==
    LET a == FindChar(L2, ":")
        b == RFindChar(L2, "}")
    IN IF a = 0 \/ b < a THEN <<>> ELSE SubSeq(L2, a + 1, b - 1)

MsgLine2 == "line 2 must define validator"
MsgValidator == "could not parse validator"
\* parse_minimal has just returned or raised, and not at line 1
Line1Passed ==
    /\ src # <<>>
    /\ pc = "parsed" \/ (pc = "failed" /\ prog = NoProgram)
    /\ perr \notin {MsgTooShort, MsgSeparator, MsgPrefix, MsgCaret, "invalid literal for int()"}

\* C25, as claimed: when line 2 holds ':' and '}', the text between the first ':'
\* and the last '}' is searched for x<k> = <c>; a match gives the ValDecl of axis
\* k - 1 and the integer c, negative or not; a line 2 without ':' or '}', or with
\* no such equality in that text, gives a validator error and no Program.
C25_ValidatorFromEnclosedText ==
    Line1Passed =>
        LET L2 == CanonLines[2]
            region == Between(L2)
            at == ValSearch(region)
        IN IF FindChar(L2, ":") # 0 /\ FindChar(L2, "}") # 0 /\ at # 0
           THEN /\ perr = "none"
                /\ prog.val = ValDecl("x_eq_const",
                                      <<DigitsValue(ValMatchAt(region, at).g1) - 1,
                                        IntValue(ValMatchAt(region, at).g2)>>)
           ELSE /\ perr \in {MsgLine2, MsgValidator}
                /\ pc = "failed" /\ prog = NoProgram

\* C26, as claimed: a validator whose axis k is 0 or more than dim never gives
\* bytecode; parse_minimal then compile_to_ir end with an error.
C26_AxisOutOfRangeFails ==
    (ParseReturned /\ perr = "none"
        /\ prog.val.args[1] + 1 \notin 1 .. prog.psi.dim) =>
        pc \notin {"compiled", "listed", "done"}

\* the instructions of MarkerSource, written out
MarkerCode ==
    <<Instr(OP_INIT, Zero, Zero, Zero, BitsOf(3)),
      Instr(OP_INIT, Zero, Frac(3, 1), Zero, {}),
      InstrOp(OP_SEED),
      Instr(OP_VMASK, Zero, Zero, Zero, 0 .. 8),
      Instr(OP_GRAD, Frac(1, 1), Frac(1, 1), Frac(1, 10), {}),
      InstrOp(OP_PROJ),
      InstrOp(OP_METRICS),
      InstrOp(OP_HALT)>>

\* C30: the instructions compiled from a source do not change when blank lines
\* or '//' lines are put in anywhere (before line 1 and between lines 1 and 2
\* too), when letters change case, or when a run of white space between two
\* words is replaced by another run of white space: the source with the noise
\* and the source without it compile, and to the same instructions.
C30_LayoutNoiseIgnored ==
    (src \in NoisySources \cup {MarkerSource}) =>
        /\ pc # "failed"
        /\ pc \notin {"idle", "source"} => canon = MarkerSource
        /\ Compiled => bc = MarkerCode

\* capitals, tabs and NBSP between the words, a comment line before line 1
C30_Witness ==
    /\ src = Noisy(TRUE, <<" ", "<nbsp>", "\t">>, 0, <<"/", "/", " ", "g", "r", "a", "d">>)
    /\ src # MarkerSource
    /\ pc = "done" /\ bc = MarkerCode

\* the entries of the listing, cut at the separator to_assembly joins with
RECURSIVE SplitAtSep(_, _)
SplitAtSep(s, acc) ==
    IF Len(s) = 0 THEN <<acc>>
    ELSE IF StartsWith(s, AsmSep) THEN <<acc>> \o SplitAtSep(Drop(s, Len(AsmSep)), <<>>)
    ELSE SplitAtSep(Drop(s, 1), Append(acc, s[1]))
AsmEntries == SplitAtSep(asmout, <<>>)

\* C22, as claimed: every entry of the listing of a compiled program carries the
\* mnemonic of its instruction's opcode, and an INIT instruction reads
\* 'INIT p=...' or 'INIT dim=...' whatever p and dim the parser accepted, 0 too.
C22_MnemonicOnEveryEntry ==
    pc \in {"listed", "done"} =>
        /\ Len(AsmEntries) = Len(bc)
        /\ \A k \in 1 .. Len(bc) :
              /\ StartsWith(AsmEntries[k], Pad2(k - 1) \o <<":", " ">> \o Mnemonic(bc[k].op))
              /\ bc[k].op = OP_INIT =>
                    \/ StartsWith(AsmEntries[k],
                                  Pad2(k - 1) \o <<":", " ", "I", "N", "I", "T", " ", "p", "=">>)
                    \/ StartsWith(AsmEntries[k],
                                  Pad2(k - 1) \o <<":", " ", "I", "N", "I", "T", " ", "d", "i", "m", "=">>)

\* the integer field of record k (from 1) of the hex text, as the set of its bits
IntegerField(k) == BitsOfLE(BytesAt(hexout, 21 * (k - 1) + 13, 8))

\* C23: the integer field of every record is the instruction's integer operand
\* modulo 2^64. Over a lattice of at most 64 cells the field of VMASK is the whole
\* mask; over a larger one exactly the bits at positions 64 and above are
\* missing. to_bytes returns a record for every instruction however wide the mask.
C23_IntegerFieldMod64 ==
    pc = "done" =>
        /\ Len(hexout) = 42 * Len(bc)
        /\ \A k \in 1 .. Len(bc) :
              /\ IntegerField(k) = {b \in bc[k].i : b < 64}
              /\ bc[k].i \ IntegerField(k) = {b \in bc[k].i : b >= 64}
              /\ (bc[k].op = OP_VMASK /\ Pow(prog.psi.p, prog.psi.dim) <= 64) =>
                    IntegerField(k) = bc[k].i

\* a mask of 81 cells: bits 66 .. 78 are dropped, bits 0 .. 63 are kept
C23_Witness ==
    /\ pc = "done" /\ prog = WideProgram
    /\ bc[4].op = OP_VMASK /\ 78 \in bc[4].i /\ 63 \in bc[4].i
    /\ 63 \in IntegerField(4) /\ 78 \notin IntegerField(4)

\* ------------------------------------------------- the expression engine
N_x == <<"x">>
N_y == <<"y">>
N_add1 == <<"a", "d", "d", "1">>
N_double == <<"d", "o", "u", "b", "l", "e">>
N_noop == <<"n", "o", "o", "p">>

\* 'let x -> a in (let x -> b in x) + x'
LetShadow(a, b) ==
    <<"l", "e", "t", " ", "x", " ", "-", ">", " ">> \o Dec(a) \o <<" ", "i", "n", " ", "(", "l", "e", "t", " ", "x", " ", "-", ">", " ">> \o Dec(b) \o <<" ", "i", "n", " ", "x", ")", " ", "+", " ", "x">>

\* a call with two arguments, and the same call written as two call suffixes
N_f == <<"f">>
N_a == <<"a">>
N_b == <<"b">>
CallTwo == <<"f", "(", "a", ",", "b", ")">>
CallChained == <<"f", "(", "a", ")", "(", "b", ")">>

\* sums and products of names, a call, parentheses; and texts that go on after
\* an expression has ended
N_c == <<"c">>
E_AddAdd == <<"a", " ", "+", " ", "b", " ", "+", " ", "c">>
E_MulMul == <<"a", " ", "*", " ", "b", " ", "*", " ", "c">>
E_AddMul == <<"a", " ", "+", " ", "b", " ", "*", " ", "c">>
E_MulAdd == <<"a", " ", "*", " ", "b", " ", "+", " ", "c">>
E_CallMul == <<"f", "(", "x", ")", " ", "*", " ", "y">>
E_ParenMul == <<"(", "a", " ", "+", " ", "b", ")", " ", "*", " ", "c">>
E_TwoNames == <<"a", " ", "b">>
E_ExtraParen == <<"a", " ", "+", " ", "b", " ", ")">>
PrecedenceSources == {E_AddAdd, E_MulMul, E_AddMul, E_MulAdd, E_CallMul, E_ParenMul}
LeftoverSources == {E_TwoNames, E_ExtraParen}

ExprSources ==
    {LetShadow(a, b) : a \in 0 .. MaxLit, b \in 0 .. MaxLit} \cup {CallTwo, CallChained}
    \cup PrecedenceSources \cup LeftoverSources

\* expressions given as trees
Leaves == {ZInt(1), ZVar(N_x), ZVar(N_y)}
Grow(S) ==
    S \cup {ZAdd(a, b) : a \in S, b \in S}
      \cup {ZLet(N_x, a, b) : a \in S, b \in S}
      \cup {ZApply(ZVar(N_noop), a) : a \in S}
Trees == Grow(Grow(Leaves))

\* the environments a caller hands to Runtime: the default callables, noop, and
\* x and y bound or not
BaseEnv == (N_add1 :> FnV("add1")) @@ (N_double :> FnV("double")) @@ (N_noop :> FnV("noop"))
Envs ==
    {ex @@ ey @@ BaseEnv :
        ex \in {<<>>, N_x :> IntV(0), N_x :> IntV(5), N_x :> NoneV, N_x :> FnV("add1")},
        ey \in {<<>>, N_y :> IntV(1)}}

InitEval ==
    /\ env0 \in Envs
    /\ env = env0
    /\ res = NoResult
    /\ pytext = <<>> /\ pyres = NoResult
    /\ \/ esrc \in ExprSources /\ ast = NoNode /\ epc = "source"
       \/ esrc = <<>> /\ ast \in Trees /\ epc = "ast"
    /\ MaskIdle
    /\ PipeIdle
    /\ PackIdle
    /\ HashIdle

\* compile_to_z(source)
CompileToZ ==
    /\ epc = "source"
    /\ LET r == compile_to_z(esrc)
       IN /\ ast' = r.node
          /\ epc' = IF r.ok THEN "ast" ELSE "syntax_error"
    /\ UNCHANGED <<esrc, env0, env, res, pytext, pyres>>

\* Runtime(env).eval(z)
RuntimeEval ==
    /\ epc = "ast"
    /\ LET r == Eval(ast, env)
       IN /\ env' = r.env
          /\ res' = [err |-> r.err, val |-> r.val]
    /\ epc' = "evaluated"
    /\ UNCHANGED <<esrc, ast, env0, pytext, pyres>>

\* C6: 'let x -> a in (let x -> b in x) + x' evaluates to b + a, whatever the
\* environment holds: inside the inner let x is b, after it x is a again;
\* 'let x -> 5 in (let x -> 7 in x) + x' evaluates to 12.
C6_ShadowUnshadow ==
    /\ \A a \in 0 .. MaxLit, b \in 0 .. MaxLit :
          esrc = LetShadow(a, b) =>
              /\ epc # "syntax_error"
              /\ epc \in {"ast", "evaluated"} =>
                    ast = ZLet(N_x, ZInt(a),
                               ZAdd(ZLet(N_x, ZInt(b), ZVar(N_x)), ZVar(N_x)))
              /\ epc = "evaluated" => res = [err |-> "none", val |-> IntV(b + a)]
    /\ (esrc = LetShadow(5, 7) /\ epc = "evaluated") => res.val = IntV(12)

C6_Witness ==
    /\ esrc = LetShadow(5, 7) /\ epc = "evaluated"
    /\ res = [err |-> "none", val |-> IntV(12)]

\* C7, as claimed: when eval returns or raises, the environment holds the same
\* names with the same values as before the call.
C7_EnvRestored == epc = "evaluated" => env = env0

\* C18, as claimed: a let of a name the environment binds leaves the name bound
\* to the value it had, whatever that value is (an integer, 0 among them, a
\* callable, None); and a let of x nested in the body of a let of x whose value
\* is None completes without error.
C18_BoundNameRestored ==
    /\ (epc = "evaluated" /\ ast.op = "LET" /\ N_x \in DOMAIN env0) =>
          (N_x \in DOMAIN env /\ env[N_x] = env0[N_x])
    /\ (/\ epc = "evaluated"
        /\ ast = ZLet(N_x, ZApply(ZVar(N_noop), ZInt(1)), ZLet(N_x, ZInt(1), ZVar(N_x)))) =>
          res.err = "none"

\* C19, as claimed: 'f(a,b)' parses to APPLY(APPLY(VAR f, a), b), and 'f(a)(b)'
\* parses too, to a tree with the same collapse_id.
C19_CallSuffixesRepeat ==
    /\ esrc \in {CallTwo, CallChained} => epc # "syntax_error"
    /\ (esrc = CallTwo /\ epc \in {"ast", "evaluated"}) =>
          ast = ZApply(ZApply(ZVar(N_f), ZVar(N_a)), ZVar(N_b))
    /\ (esrc = CallChained /\ epc \in {"ast", "evaluated"}) =>
          ast.collapse_id = ZApply(ZApply(ZVar(N_f), ZVar(N_a)), ZVar(N_b)).collapse_id

\* the tree the parser must give for a source, NoNode for the other sources
ExpectedTree(s) ==
    CASE s = E_AddAdd -> ZAdd(ZAdd(ZVar(N_a), ZVar(N_b)), ZVar(N_c))
      [] s = E_MulMul -> ZMul(ZMul(ZVar(N_a), ZVar(N_b)), ZVar(N_c))
      [] s = E_AddMul -> ZAdd(ZVar(N_a), ZMul(ZVar(N_b), ZVar(N_c)))
      [] s = E_MulAdd -> ZAdd(ZMul(ZVar(N_a), ZVar(N_b)), ZVar(N_c))
      [] s = E_CallMul -> ZMul(ZApply(ZVar(N_f), ZVar(N_x)), ZVar(N_y))
      [] s = E_ParenMul -> ZMul(ZAdd(ZVar(N_a), ZVar(N_b)), ZVar(N_c))
      [] OTHER -> NoNode

\* the tokens of the source and the position after the first expression in them
SourceTokens == tokenize(esrc).ts
AfterExpr == P_expr(SourceTokens, 1)

\* C27: 'a + b + c' parses to ADD(ADD(a,b),c), 'a * b * c' to MUL(MUL(a,b),c),
\* 'a + b * c' to ADD(a, MUL(b,c)), 'f(x) * y' to MUL(APPLY(f,x), y) and
\* '(a + b) * c' to MUL(ADD(a,b), c); a source parses only when its expression
\* ends at the end of the tokens, and fails when tokens are left over.
C27_PrecedenceAndAssociativity ==
    /\ (esrc \in PrecedenceSources /\ epc # "source") =>
          (epc \in {"ast", "evaluated"} /\ ast = ExpectedTree(esrc))
    /\ (esrc # <<>> /\ epc \in {"ast", "evaluated"}) =>
          (AfterExpr.ok /\ AfterExpr.i = Len(SourceTokens) /\ ast = AfterExpr.node)
    /\ (esrc # <<>> /\ epc # "source" /\ tokenize(esrc).ok
          /\ AfterExpr.ok /\ ~Is(SourceTokens, AfterExpr.i, "EOF")) =>
          (epc = "syntax_error" /\ ast = NoNode)

\* the product binds tighter than the sum that stands before it
C27_Witness ==
    /\ esrc = E_AddMul /\ epc = "ast"
    /\ ast = ZAdd(ZVar(N_a), ZMul(ZVar(N_b), ZVar(N_c)))

\* evaluating n in the environment e comes to the lookup of a name that e does
\* not hold, everything evaluated before it having returned
RECURSIVE LookupFails(_, _)
LookupFails(n, e) ==
    CASE n.op = "VAR" -> DictGet(n.meta, K_name).s \notin DOMAIN e
      [] n.op \in {"ADD", "MUL", "APPLY"} ->
            \/ LookupFails(n.args[1], e)
            \/ /\ Eval(n.args[1], e).err = "none"
               /\ LookupFails(n.args[2], Eval(n.args[1], e).env)
      [] n.op = "LET" ->
            \/ LookupFails(n.args[1], e)
            \/ /\ Eval(n.args[1], e).err = "none"
               /\ LookupFails(n.args[2],
                              EnvSet(Eval(n.args[1], e).env, DictGet(n.meta, K_name).s,
                                     Eval(n.args[1], e).val))
      [] OTHER -> FALSE

\* C28, as claimed: the lookup of a name the environment does not hold raises
\* the unbound-name error; nothing to the right of it is evaluated (the left
\* operand before the right, the callee before the argument); and the caller of
\* eval receives that error through every node that encloses the lookup.
C28_UnboundNamePropagates ==
    (epc = "evaluated" /\ LookupFails(ast, env0)) =>
        /\ res.err = "NameError"
        /\ (ast.op \in {"ADD", "MUL", "APPLY"} /\ LookupFails(ast.args[1], env0)) =>
              env = Eval(ast.args[1], env0).env

\* --------------------------------------------------------- csl_any_collapse.py
MAGIC == Utf8Encode(<<"C", "S", "L", "X", "R", "A", "W">>)
VER == 1

\* the bytes pack_any writes for a file of that name and content
pack_any(name, raw) ==
    MAGIC \o U32BE(VER) \o U32BE(Len(Utf8Encode(name))) \o Utf8Encode(name) \o compress(raw)

\* unpack_any on the bytes of a package: the exception it ends with, whether it
\* called decompress, and the name and content of the file it writes. Run with
\* -O the interpreter drops the assert statement.
UnpackAnyFails(err, infl) == [err |-> err, inflated |-> infl, name |-> <<>>, data |-> <<>>]
\* the file written whatever decompress returned
UnpackAnyWriteUnchecked(name, data) ==
    [err |-> "none", inflated |-> TRUE, name |-> name, data |-> data.data]
UnpackAnyWrite(name, data) ==
    IF ~data.ok THEN UnpackAnyFails("zlib.error", TRUE)
    ELSE IF name = <<>> THEN UnpackAnyFails("IsADirectoryError", TRUE)
    ELSE [err |-> "none", inflated |-> TRUE, name |-> name, data |-> data.data]
UnpackAnyData(pkg, nlen, name) ==
    IF ~name.ok THEN UnpackAnyFails("UnicodeDecodeError", FALSE)
    ELSE UnpackAnyWrite(name.s, decompress(Slice(pkg, 15 + nlen, Len(pkg))))
UnpackAnyName(pkg, nlen) == UnpackAnyData(pkg, nlen, Utf8Decode(Slice(pkg, 15, 15 + nlen)))
unpack_any(pkg, opt) ==
    IF ~opt /\ Slice(pkg, 0, 7) # MAGIC THEN UnpackAnyFails("AssertionError", FALSE)
    ELSE UnpackAnyName(pkg, IntFromBytes(Slice(pkg, 11, 15)))

\* ------------------------------------------------------------- collapse_pack.py
MAGIC_CSLX == Utf8Encode(<<"C", "S", "L", "X">>)
VER_CSLX == 1

\* what ast.parse returns, as far as PyToZ looks at it
PyConst(n) == [ty |-> "Constant", constant |-> n]
PyStr(s) == [ty |-> "Constant", text |-> s]
PyName(id) == [ty |-> "Name", id |-> id]
PyBinOp(op, l, r) == [ty |-> "BinOp", op |-> op, left |-> l, right |-> r]
PyCall(f, cargs) == [ty |-> "Call", func |-> f, cargs |-> cargs]
PyAssign(target, value) == [ty |-> "Assign", target |-> target, value |-> value]
PyExpr(value) == [ty |-> "Expr", value |-> value]
PyPass == [ty |-> "Pass"]

\* the helper a BinOp other than Add and Mult is applied through
BinOpName(op) ==
    CASE op = "Sub" -> <<"s", "u", "b">>
      [] op = "Div" -> <<"d", "i", "v">>
      [] op = "FloorDiv" -> <<"f", "l", "o", "o", "r", "d", "i", "v">>
      [] op = "Mod" -> <<"m", "o", "d">>
      [] op = "Pow" -> <<"p", "o", "w">>

\* visit raises SyntaxError("const") on a constant that is not an int
RECURSIVE VisitRaises(_)
VisitRaises(n) ==
    CASE n.ty = "Constant" -> "constant" \notin DOMAIN n
      [] n.ty = "Name" -> FALSE
      [] n.ty = "BinOp" -> VisitRaises(n.left) \/ VisitRaises(n.right)
      [] n.ty = "Call" -> \E k \in 1 .. Len(n.cargs) : VisitRaises(n.cargs[k])

\* visit_Constant, visit_Name, visit_BinOp, visit_Call
RECURSIVE visit(_), visit_Call(_, _)
visit(n) ==
    CASE n.ty = "Constant" -> ZInt(n.constant)
      [] n.ty = "Name" -> ZVar(n.id)
      [] n.ty = "BinOp" ->
            IF n.op = "Add" THEN ZAdd(visit(n.left), visit(n.right))
            ELSE IF n.op = "Mult" THEN ZMul(visit(n.left), visit(n.right))
            ELSE ZApply(ZApply(ZVar(BinOpName(n.op)), visit(n.left)), visit(n.right))
      [] n.ty = "Call" -> visit_Call(ZVar(n.func), n.cargs)
visit_Call(out, cargs) ==
    IF Len(cargs) = 0 THEN out
    ELSE visit_Call(ZApply(out, visit(cargs[1])), Drop(cargs, 1))

\* the loop of visit_Module over reversed(body[:-1]), from statement k down
RECURSIVE WrapAssigns(_, _, _)
WrapAssigns(body, k, z) ==
    IF k = 0 THEN z
    ELSE IF body[k].ty = "Assign"
         THEN WrapAssigns(body, k - 1, ZLet(body[k].target, visit(body[k].value), z))
    ELSE WrapAssigns(body, k - 1, z)

\* visit_Module: [err, z]
visit_Module(body) ==
    LET last == body[Len(body)]
        raises == \E k \in 1 .. Len(body) :
                     body[k].ty \in {"Assign", "Expr"} /\ VisitRaises(body[k].value)
                     /\ (k = Len(body) \/ body[k].ty = "Assign")
        z == IF last.ty = "Expr" THEN visit(last.value)
             ELSE ZLet(last.target, visit(last.value), ZVar(last.target))
    IN IF Len(body) = 0 \/ last.ty \notin {"Expr", "Assign"} \/ raises
       THEN [err |-> "SyntaxError", z |-> NoNode]
       ELSE [err |-> "none", z |-> WrapAssigns(body, Len(body) - 1, z)]

\* the bytes pack_py writes for a node
pack_py(z) == MAGIC_CSLX \o U32BE(VER_CSLX) \o compress(CanonBytes(to_canon(z)))

\* ----------------------------------------------------------- collapse_unpack.py
\* getattr(ZOp, name)
OpOfName(s) == CHOOSE op \in ZOps : OpName(op) = s
IsOpName(s) == \E op \in ZOps : OpName(op) = s

\* the argument list read back to front
ArgsOfReversed(x) ==
    IF HasKey(x.d, K_args)
    THEN [k \in 1 .. Len(DictGet(x.d, K_args).items) |->
             DictGet(x.d, K_args).items[Len(DictGet(x.d, K_args).items) + 1 - k]]
    ELSE <<>>

\* d.get("args", []) as the comprehension of z_from_dict iterates it: the items
\* of a list, nothing for an empty string or an empty dict
ArgsOf(x) ==
    IF HasKey(x.d, K_args) /\ DictGet(x.d, K_args).j = "list"
    THEN DictGet(x.d, K_args).items
    ELSE <<>>
\* d.get("meta", {}); where the key is present its value is a dict in every
\* drawn package
MetaOf(x) == IF HasKey(x.d, K_meta) THEN DictGet(x.d, K_meta).d ELSE EmptyDict

\* iterating d.get("args", []) raises, or hands z_from_dict something that is
\* no dict
ArgsUnusable(x) ==
    /\ HasKey(x.d, K_args)
    /\ DictGet(x.d, K_args).j # "list"
    /\ DictGet(x.d, K_args) \notin {JStr(<<>>), JDict(EmptyDict)}

\* the exception z_from_dict ends with on a value json.loads returned, "none"
\* when it returns a node: d["op"], getattr(ZOp, ...), then the children in order
RECURSIVE FromDictError(_), FromDictErrors(_, _)
FromDictError(x) ==
    IF x.j # "dict" THEN "TypeError"
    ELSE IF ~HasKey(x.d, K_op) THEN "KeyError"
    ELSE IF DictGet(x.d, K_op).j # "str" THEN "TypeError"
    ELSE IF ~IsOpName(DictGet(x.d, K_op).s) THEN "AttributeError"
    ELSE IF ArgsUnusable(x) THEN "TypeError"
    ELSE FromDictErrors(ArgsOf(x), 1)
FromDictErrors(items, k) ==
    IF k > Len(items) THEN "none"
    ELSE IF FromDictError(items[k]) # "none" THEN FromDictError(items[k])
    ELSE FromDictErrors(items, k + 1)

RECURSIVE z_from_dict(_)
z_from_dict(x) ==
    ZNode(OpOfName(DictGet(x.d, K_op).s),
          [k \in 1 .. Len(ArgsOf(x)) |-> z_from_dict(ArgsOf(x)[k])],
          MetaOf(x))

\* the exception t of z_to_py ends with on a node, "none" when it returns:
\* n.meta[...] of a key that is not there, n.args[k] of a child that is not there
RECURSIVE RenderError(_), RenderChildren(_)
RenderError(n) ==
    CASE n.op = "INT" -> IF HasKey(n.meta, K_value) THEN "none" ELSE "KeyError"
      [] n.op = "VAR" -> IF HasKey(n.meta, K_name) THEN "none" ELSE "KeyError"
      [] n.op = "LET" -> IF HasKey(n.meta, K_name) THEN RenderChildren(n) ELSE "KeyError"
      [] OTHER -> RenderChildren(n)
RenderChildren(n) ==
    IF Len(n.args) < 1 THEN "IndexError"
    ELSE IF RenderError(n.args[1]) # "none" THEN RenderError(n.args[1])
    ELSE IF Len(n.args) < 2 THEN "IndexError"
    ELSE RenderError(n.args[2])

\* t of z_to_py: the text of n, and the assignments collected so far
RECURSIVE ToPy(_, _)
ToPy(n, assigns) ==
    CASE n.op = "INT" -> [s |-> Dec(DictGet(n.meta, K_value).n), assigns |-> assigns]
      [] n.op = "VAR" -> [s |-> DictGet(n.meta, K_name).s, assigns |-> assigns]
      [] n.op \in {"ADD", "MUL"} ->
            LET l == ToPy(n.args[1], assigns)
                r == ToPy(n.args[2], l.assigns)
                sign == IF n.op = "ADD" THEN <<" ", "+", " ">> ELSE <<" ", "*", " ">>
            IN [s |-> <<"(">> \o l.s \o sign \o r.s \o <<")">>, assigns |-> r.assigns]
      [] n.op = "APPLY" ->
            LET f == ToPy(n.args[1], assigns)
                a == ToPy(n.args[2], f.assigns)
            IN [s |-> f.s \o <<"(">> \o a.s \o <<")">>, assigns |-> a.assigns]
      [] n.op = "LET" ->
            LET v == ToPy(n.args[1], assigns)
            IN ToPy(n.args[2], Append(v.assigns, DictGet(n.meta, K_name).s \o <<" ", "=", " ">> \o v.s))

z_to_py(z) ==
    LET r == ToPy(z, <<>>)
    IN [assigns |-> r.assigns, final |-> r.s]

\* the environment unpack evaluates in; div and pow, whose results leave the
\* integers, are not bound here and no drawn module uses them
N_sub == <<"s", "u", "b">>
N_floordiv == <<"f", "l", "o", "o", "r", "d", "i", "v">>
N_mod == <<"m", "o", "d">>
UnpackEnv ==
    (N_add1 :> FnV("add1")) @@ (N_double :> FnV("double")) @@ (N_sub :> FnV("sub"))
    @@ (N_floordiv :> FnV("floordiv")) @@ (N_mod :> FnV("mod"))

Outcome(r) == [err |-> r.err, val |-> r.val]
EvalOutcome(z, e) == Outcome(Eval(z, e))

\* unpack on the bytes of a package: the exception it ends with, whether it
\* called decompress, whether it wrote the file, the text written, the node
\* rebuilt and what evaluating it gave
UnpackFails(err, infl) ==
    [err |-> err, inflated |-> infl, write |-> FALSE, text |-> <<>>, z |-> NoNode,
     run |-> NoResult]
ExpandedText(py) ==
    <<"#", " ", "e", "x", "p", "a", "n", "d", "e", "d", " ", "b", "y", " ", "C", "S", "L">> \o <<"\n">>
    \o JoinWith(Append(py.assigns, py.final), <<"\n">>) \o <<"\n">>
UnpackWritten(z, py, run) ==
    [err |-> run.err, inflated |-> TRUE, write |-> TRUE,
     text |-> Utf8Encode(ExpandedText(py)), z |-> z, run |-> run]
UnpackNode(z, eval_now) ==
    IF RenderError(z) # "none" THEN UnpackFails(RenderError(z), TRUE)
    ELSE UnpackWritten(z, z_to_py(z), IF eval_now THEN EvalOutcome(z, UnpackEnv) ELSE NoResult)
UnpackLoaded(d, eval_now) ==
    IF ~d.ok THEN UnpackFails("JSONDecodeError", TRUE)
    ELSE IF FromDictError(d.v) # "none" THEN UnpackFails(FromDictError(d.v), TRUE)
    ELSE UnpackNode(z_from_dict(d.v), eval_now)
UnpackInflated(comp, eval_now) ==
    IF ~comp.ok THEN UnpackFails("zlib.error", TRUE)
    ELSE IF ~Utf8Decode(comp.data).ok THEN UnpackFails("UnicodeDecodeError", TRUE)
    ELSE UnpackLoaded(json_loads(comp.data), eval_now)
unpack(raw, eval_now) ==
    IF Slice(raw, 0, 4) # MAGIC_CSLX THEN UnpackFails("ValueError", FALSE)
    ELSE IF Len(Slice(raw, 4, 8)) # 4 THEN UnpackFails("struct.error", FALSE)
    ELSE UnpackInflated(decompress(Slice(raw, 8, Len(raw))), eval_now)

\* --------------------------------------- the rendered text, run as Python
\* The lines z_to_py renders are read as Python reads them: integer literals,
\* names, + and *, parentheses, calls of one argument, and NAME = expression.
\* (Names that are Python keywords are not among the drawn names.)
PyApply(f, a) == [ty |-> "Apply", func |-> f, arg |-> a]

PyTok(k, c) == [k |-> k, c |-> c]
PyNum(n) == [k |-> "num", n |-> n]
PyWord(w) == [k |-> "name", w |-> w]

RECURSIVE PyLexFrom(_, _, _)
PyLexFrom(s, i, ts) ==
    IF i > Len(s) THEN [ok |-> TRUE, ts |-> Append(ts, PyTok("eof", ""))]
    ELSE IF s[i] = " " THEN PyLexFrom(s, i + 1, ts)
    ELSE IF IsDigit(s[i])
         THEN PyLexFrom(s, DigitsEnd(s, i),
                        Append(ts, PyNum(DigitsValue(SubSeq(s, i, DigitsEnd(s, i) - 1)))))
    ELSE IF IsAlpha(s[i]) \/ s[i] = "_"
         THEN PyLexFrom(s, IdentEnd(s, i), Append(ts, PyWord(SubSeq(s, i, IdentEnd(s, i) - 1))))
    ELSE IF s[i] \in {"+", "*", "(", ")", "="}
         THEN PyLexFrom(s, i + 1, Append(ts, PyTok("op", s[i])))
    ELSE [ok |-> FALSE, ts |-> <<>>]
PyLex(s) == PyLexFrom(s, 1, <<>>)

PyIsOp(ts, i, c) == ts[i].k = "op" /\ ts[i].c = c
PyFail(i) == [ok |-> FALSE, node |-> PyPass, i |-> i]
PyOk(node, i) == [ok |-> TRUE, node |-> node, i |-> i]

\* sum := prod ('+' prod)*, prod := post ('*' post)*, post := atom ('(' sum ')')*,
\* atom := NUMBER | NAME | '(' sum ')'
RECURSIVE Py_sum(_, _), PySumRest(_, _), PySumLoop(_, _, _), PySumNext(_, _, _),
          Py_prod(_, _), PyProdRest(_, _), PyProdLoop(_, _, _), PyProdNext(_, _, _),
          Py_post(_, _), PyPostRest(_, _), PyPostLoop(_, _, _), PyPostArg(_, _, _),
          Py_atom(_, _), PyParen(_, _)
Py_sum(ts, i) == PySumRest(ts, Py_prod(ts, i))
PySumRest(ts, left) == IF ~left.ok THEN left ELSE PySumLoop(ts, left.node, left.i)
PySumLoop(ts, left, i) ==
    IF PyIsOp(ts, i, "+") THEN PySumNext(ts, left, Py_prod(ts, i + 1)) ELSE PyOk(left, i)
PySumNext(ts, left, right) ==
    IF ~right.ok THEN right ELSE PySumLoop(ts, PyBinOp("Add", left, right.node), right.i)
Py_prod(ts, i) == PyProdRest(ts, Py_post(ts, i))
PyProdRest(ts, left) == IF ~left.ok THEN left ELSE PyProdLoop(ts, left.node, left.i)
PyProdLoop(ts, left, i) ==
    IF PyIsOp(ts, i, "*") THEN PyProdNext(ts, left, Py_post(ts, i + 1)) ELSE PyOk(left, i)
PyProdNext(ts, left, right) ==
    IF ~right.ok THEN right ELSE PyProdLoop(ts, PyBinOp("Mult", left, right.node), right.i)
Py_post(ts, i) == PyPostRest(ts, Py_atom(ts, i))
PyPostRest(ts, f) == IF ~f.ok THEN f ELSE PyPostLoop(ts, f.node, f.i)
PyPostLoop(ts, f, i) ==
    IF PyIsOp(ts, i, "(") THEN PyPostArg(ts, f, Py_sum(ts, i + 1)) ELSE PyOk(f, i)
PyPostArg(ts, f, a) ==
    IF ~a.ok THEN a
    ELSE IF ~PyIsOp(ts, a.i, ")") THEN PyFail(a.i)
    ELSE PyPostLoop(ts, PyApply(f, a.node), a.i + 1)
Py_atom(ts, i) ==
    IF ts[i].k = "num" THEN PyOk(PyConst(ts[i].n), i + 1)
    ELSE IF ts[i].k = "name" THEN PyOk(PyName(ts[i].w), i + 1)
    ELSE IF PyIsOp(ts, i, "(") THEN PyParen(ts, Py_sum(ts, i + 1))
    ELSE PyFail(i)
PyParen(ts, e) ==
    IF ~e.ok THEN e
    ELSE IF ~PyIsOp(ts, e.i, ")") THEN PyFail(e.i)
    ELSE PyOk(e.node, e.i + 1)

\* an expression that ends where the line ends
PyWhole(ts, r) == IF r.ok /\ ts[r.i].k # "eof" THEN PyFail(r.i) ELSE r
PyExprFrom(lexed, i) ==
    IF ~lexed.ok \/ i > Len(lexed.ts) THEN PyFail(0)
    ELSE PyWhole(lexed.ts, Py_sum(lexed.ts, i))

\* the value of an expression in the namespace e
RECURSIVE PyEval(_, _)
PyEval(n, e) ==
    CASE n.ty = "Constant" -> Ret(IntV(n.constant), e)
      [] n.ty = "Name" -> IF n.id \notin DOMAIN e THEN Raise("NameError", e) ELSE Ret(e[n.id], e)
      [] n.ty = "BinOp" ->
            LET l == PyEval(n.left, e)
                r == PyEval(n.right, e)
            IN IF l.err # "none" THEN l
               ELSE IF r.err # "none" THEN r
               ELSE IF n.op = "Add" THEN Plus(l.val, r.val, e)
               ELSE Times(l.val, r.val, e)
      [] n.ty = "Apply" ->
            LET f == PyEval(n.func, e)
                a == PyEval(n.arg, e)
            IN IF f.err # "none" THEN f
               ELSE IF a.err # "none" THEN a
               ELSE Call(f.val, a.val, e)

\* the lines run in order: each but the last is NAME = expression, the last is
\* the expression whose value is the result
PyIsAssign(lexed) ==
    lexed.ok /\ Len(lexed.ts) >= 3 /\ lexed.ts[1].k = "name" /\ PyIsOp(lexed.ts, 2, "=")
PyFinal(parsed, e) ==
    IF ~parsed.ok THEN [err |-> "SyntaxError", val |-> NoneV]
    ELSE Outcome(PyEval(parsed.node, e))
RECURSIVE PyExecFrom(_, _, _), PyExecLine(_, _, _, _), PyExecAssign(_, _, _, _, _),
          PyExecBind(_, _, _, _, _)
PyExecFrom(lines, k, e) ==
    IF k >= Len(lines) THEN PyFinal(PyExprFrom(PyLex(lines[k]), 1), e)
    ELSE PyExecLine(lines, k, e, PyLex(lines[k]))
PyExecLine(lines, k, e, lexed) ==
    IF ~PyIsAssign(lexed) THEN [err |-> "SyntaxError", val |-> NoneV]
    ELSE PyExecAssign(lines, k, e, lexed.ts[1].w, PyExprFrom(lexed, 3))
PyExecAssign(lines, k, e, name, parsed) ==
    IF ~parsed.ok THEN [err |-> "SyntaxError", val |-> NoneV]
    ELSE PyExecBind(lines, k, e, name, PyEval(parsed.node, e))
PyExecBind(lines, k, e, name, v) ==
    IF v.err # "none" THEN Outcome(v)
    ELSE PyExecFrom(lines, k + 1, EnvSet(e, name, v.val))

\* z_to_py(z), and the lines it rendered run in the environment eval began with
RenderedLines(py) == Append(py.assigns, py.final)
Rendered(lines) ==
    /\ pytext' = lines
    /\ pyres' = PyExecFrom(lines, 1, env0)
RenderAndExecute ==
    /\ epc = "evaluated" /\ pytext = <<>>
    /\ Rendered(RenderedLines(z_to_py(ast)))
    /\ UNCHANGED <<esrc, ast, env0, env, res, epc>>

NextEval == (CompileToZ \/ RuntimeEval \/ RenderAndExecute) /\ UNCHANGED <<maskVars, pipeVars, packVars, hashVars>>

SpecEval == InitEval /\ [][NextEval]_vars

\* C15, as claimed: running the lines z_to_py rendered (the assignment lines in
\* order, then the final expression) gives the value, or the exception, that
\* Runtime.eval gives on the tree in the same environment.
C15_RenderedEquivalent == pytext # <<>> => pyres = res

\* ------------------------------------------------------------- the containers
ByteValues == {0, 10, 255}
Contents == SeqsUpTo(ByteValues, MaxBytes)

FileNames ==
    {<<"a">>, <<"b", ".", "p", "y">>, <<"<eacute>">>, <<"<nabla>", ".", "c">>, <<"<surrogate>">>}
InPaths == {Path(dir, name) : dir \in {"cwd", "sub"}, name \in FileNames}

PyAtoms == {PyConst(0), PyConst(2), PyName(N_x), PyName(N_y)}
PyExprs ==
    PyAtoms
    \cup {PyBinOp(op, l, r) : op \in {"Add", "Mult", "Sub", "FloorDiv", "Mod"},
                              l \in PyAtoms, r \in PyAtoms}
    \cup {PyCall(N_add1, <<a>>) : a \in PyAtoms}
    \cup {PyCall(N_sub, <<PyConst(2), a>>) : a \in PyAtoms}
    \cup {PyStr(<<"s">>)}
PyModules ==
    {<<PyExpr(e)>> : e \in PyExprs}
    \cup {<<PyAssign(N_x, a), PyExpr(e)>> : a \in {PyConst(2), PyName(N_y)}, e \in PyExprs}
    \cup {<<PyAssign(N_y, e)>> : e \in PyExprs}
    \cup {<<>>, <<PyPass>>, <<PyExpr(PyConst(0)), PyAssign(N_x, PyConst(2)), PyPass, PyExpr(PyName(N_x))>>}

\* the source of pack_py
PySource == Path("cwd", <<"p", "r", "o", "g", ".", "p", "y">>)

AnyJob(paths, contents) ==
    /\ ain \in paths /\ araw \in contents
    /\ apc = "pack" /\ apkg = NoPath /\ abad = FALSE /\ aerr = "none" /\ arestored = NoPath

PyJob(modules) ==
    /\ bmod \in modules
    /\ bpc = "pack" /\ bpkg = NoPath /\ bbad = FALSE /\ berr = "none" /\ beval = FALSE
    /\ zpacked = NoNode /\ zunpacked = NoNode /\ brun = NoResult

\* one run of either packer on its own, or one of each side by side
InitPack ==
    /\ \/ AnyJob(InPaths, Contents) /\ PyIdle /\ optimize \in BOOLEAN
       \/ PyJob(PyModules) /\ AnyIdle /\ optimize = FALSE
       \/ /\ AnyJob({Path("sub", <<"a">>)}, {<<10>>})
          /\ PyJob({<<PyExpr(PyConst(2))>>})
          /\ optimize \in BOOLEAN
    /\ fs = IF apc = "pack" THEN ain :> araw ELSE <<>>
    /\ wrote = {} /\ inflated = {} /\ foreign = {}
    /\ MaskIdle
    /\ PipeIdle
    /\ EvalIdle
    /\ HashIdle

\* pack_any(in_path)
PackAny ==
    /\ apc = "pack"
    /\ IF Utf8Encodable(ain.name)
       THEN LET out == with_suffix(ain, Suffix(ain.name) \o <<".", "c", "s", "l", "x">>)
            IN /\ fs' = (out :> pack_any(ain.name, fs[ain])) @@ fs
               /\ apkg' = out
               /\ apc' = "packed"
               /\ aerr' = aerr
       ELSE /\ apc' = "failed_to_pack"
            /\ aerr' = "UnicodeEncodeError"
            /\ UNCHANGED <<fs, apkg>>
    /\ UNCHANGED <<optimize, foreign, wrote, inflated, ain, araw, abad, arestored>>
    /\ UNCHANGED <<bpc, bmod, bpkg, bbad, berr, beval, zpacked, zunpacked, brun>>

\* a file that does not start with the magic, its other bytes those of a package
SetByte(b, i, x) == [b EXCEPT ![i] = x]
ForeignMagicAny ==
    /\ apc = "packed" /\ ~abad /\ "any" \notin foreign
    /\ \E i \in 1 .. Len(MAGIC) : fs' = [fs EXCEPT ![apkg] = SetByte(@, i, 0)]
    /\ abad' = TRUE
    /\ UNCHANGED <<optimize, foreign, wrote, inflated, apc, ain, araw, apkg, aerr, arestored>>
    /\ UNCHANGED <<bpc, bmod, bpkg, bbad, berr, beval, zpacked, zunpacked, brun>>

\* the version fields as the unpackers read them: int.from_bytes(pkg[7:11], 'big')
\* and struct.unpack(">I", raw[4:8])[0]
VersionAny(pkg) == IntFromBytes(Slice(pkg, 7, 11))
VersionPy(raw) == IntFromBytes(Slice(raw, 4, 8))

\* versions no packer writes
OtherVersions == {0, 2}

\* a package of another version: the magic and every other byte are the packer's
SetSlice(b, lo, x) == [k \in 1 .. Len(b) |-> IF lo < k /\ k <= lo + Len(x) THEN x[k - lo] ELSE b[k]]
ForeignVersionAny ==
    /\ apc = "packed" /\ VersionAny(fs[apkg]) = VER /\ "any" \notin foreign
    /\ \E v \in OtherVersions : fs' = [fs EXCEPT ![apkg] = SetSlice(@, 7, U32BE(v))]
    /\ UNCHANGED <<optimize, foreign, wrote, inflated, apc, ain, araw, apkg, abad, aerr, arestored>>
    /\ UNCHANGED <<bpc, bmod, bpkg, bbad, berr, beval, zpacked, zunpacked, brun>>

ForeignVersionPy ==
    /\ bpc = "packed" /\ VersionPy(fs[bpkg]) = VER_CSLX /\ "py" \notin foreign
    /\ \E v \in OtherVersions : fs' = [fs EXCEPT ![bpkg] = SetSlice(@, 4, U32BE(v))]
    /\ UNCHANGED <<optimize, foreign, wrote, inflated, bpc, bmod, bpkg, bbad, berr, beval,
                   zpacked,
                   zunpacked, brun>>
    /\ UNCHANGED <<apc, ain, araw, apkg, abad, aerr, arestored>>

\* a package whose compressed part is cut short by one byte
CutShort(b) == SubSeq(b, 1, Len(b) - 1)
TruncatedAny ==
    /\ apc = "packed" /\ ~abad /\ VersionAny(fs[apkg]) = VER /\ "any" \notin foreign
    /\ fs' = [fs EXCEPT ![apkg] = CutShort(@)]
    /\ foreign' = foreign \cup {"any"}
    /\ UNCHANGED <<optimize, wrote, inflated, apc, ain, araw, apkg, abad, aerr, arestored>>
    /\ UNCHANGED <<bpc, bmod, bpkg, bbad, berr, beval, zpacked, zunpacked, brun>>

\* texts that are not the canonical form of a node pack_py builds: not JSON, JSON
\* that is no dict, dicts without a usable op, nodes that lack the metadata or
\* the children rendering reads, and a node whose args is an empty dict
ForeignTexts ==
    {<<"{">>, <<"[", "]">>, <<"{", "}">>, <<"{", "\"", "o", "p", "\"", ":", "\"", "N", "O", "P", "E", "\"", "}">>, <<"{", "\"", "o", "p", "\"", ":", "5", "}">>, <<"{", "\"", "o", "p", "\"", ":", "\"", "I", "N", "T", "\"", "}">>,
     <<"{", "\"", "o", "p", "\"", ":", "\"", "A", "D", "D", "\"", "}">>, <<"{", "\"", "o", "p", "\"", ":", "\"", "I", "N", "T", "\"", ",", "\"", "a", "r", "g", "s", "\"", ":", "5", "}">>,
     <<"{", "\"", "o", "p", "\"", ":", "\"", "A", "D", "D", "\"", ",", "\"", "a", "r", "g", "s", "\"", ":", "[", "{", "\"", "o", "p", "\"", ":", "\"", "I", "N", "T", "\"", ",", "\"", "m", "e", "t", "a", "\"", ":", "{", "\"", "v", "a", "l", "u", "e", "\"", ":", "1", "}", "}", "]", "}">>,
     <<"{", "\"", "o", "p", "\"", ":", "\"", "I", "N", "T", "\"", ",", "\"", "a", "r", "g", "s", "\"", ":", "{", "}", ",", "\"", "m", "e", "t", "a", "\"", ":", "{", "\"", "v", "a", "l", "u", "e", "\"", ":", "1", "}", "}">>}
ForeignBodies == {Utf8Encode(t) : t \in ForeignTexts} \cup {<<255>>}

\* a package with the packer's magic and version whose compressed part holds
\* another text, or is cut short
ForeignBodyPy ==
    /\ bpc = "packed" /\ ~bbad /\ VersionPy(fs[bpkg]) = VER_CSLX /\ "py" \notin foreign
    /\ \/ \E body \in ForeignBodies :
             fs' = [fs EXCEPT ![bpkg] = MAGIC_CSLX \o U32BE(VER_CSLX) \o compress(body)]
       \/ fs' = [fs EXCEPT ![bpkg] = CutShort(@)]
    /\ foreign' = foreign \cup {"py"}
    /\ UNCHANGED <<optimize, wrote, inflated, bpc, bmod, bpkg, bbad, berr, beval, zpacked,
                   zunpacked, brun>>
    /\ UNCHANGED <<apc, ain, araw, apkg, abad, aerr, arestored>>

\* unpack_any(pkg_path)
UnpackAnyEnds(o) ==
    /\ aerr' = o.err
    /\ inflated' = IF o.inflated THEN inflated \cup {"any"} ELSE inflated
    /\ IF o.err = "none"
       THEN /\ fs' = (Path("cwd", o.name) :> o.data) @@ fs
            /\ wrote' = wrote \cup {<<"any", Path("cwd", o.name)>>}
            /\ arestored' = Path("cwd", o.name)
            /\ apc' = "unpacked"
       ELSE /\ apc' = "failed"
            /\ UNCHANGED <<fs, wrote, arestored>>
UnpackAny ==
    /\ apc = "packed"
    /\ UnpackAnyEnds(unpack_any(fs[apkg], optimize))
    /\ UNCHANGED <<optimize, foreign, ain, araw, apkg, abad>>
    /\ UNCHANGED <<bpc, bmod, bpkg, bbad, berr, beval, zpacked, zunpacked, brun>>

\* pack_py(src)
PackPyEnds(r, out) ==
    IF r.err = "none"
    THEN /\ fs' = (out :> pack_py(r.z)) @@ fs
         /\ bpkg' = out
         /\ zpacked' = r.z
         /\ bpc' = "packed"
         /\ berr' = berr
    ELSE /\ bpc' = "failed_to_pack"
         /\ berr' = r.err
         /\ UNCHANGED <<fs, bpkg, zpacked>>
PackPy ==
    /\ bpc = "pack"
    /\ PackPyEnds(visit_Module(bmod), with_suffix(PySource, <<".", "c", "s", "l", "x">>))
    /\ UNCHANGED <<optimize, foreign, wrote, inflated, bmod, bbad, beval, zunpacked, brun>>
    /\ UNCHANGED <<apc, ain, araw, apkg, abad, aerr, arestored>>

ForeignMagicPy ==
    /\ bpc = "packed" /\ ~bbad /\ "py" \notin foreign
    /\ \E i \in 1 .. Len(MAGIC_CSLX) : fs' = [fs EXCEPT ![bpkg] = SetByte(@, i, 0)]
    /\ bbad' = TRUE
    /\ UNCHANGED <<optimize, foreign, wrote, inflated, bpc, bmod, bpkg, berr, beval,
                   zpacked,
                   zunpacked, brun>>
    /\ UNCHANGED <<apc, ain, araw, apkg, abad, aerr, arestored>>

\* unpack(in_path, None, eval_now)
UnpackEnds(o, out) ==
    /\ berr' = o.err
    /\ inflated' = IF o.inflated THEN inflated \cup {"py"} ELSE inflated
    /\ zunpacked' = o.z
    /\ brun' = o.run
    /\ IF o.write
       THEN /\ fs' = (out :> o.text) @@ fs
            /\ wrote' = wrote \cup {<<"py", out>>}
            /\ bpc' = "unpacked"
       ELSE /\ bpc' = "failed"
            /\ UNCHANGED <<fs, wrote>>
Unpack ==
    /\ bpc = "packed"
    /\ \E eval_now \in BOOLEAN :
          /\ beval' = eval_now
          /\ UnpackEnds(unpack(fs[bpkg], eval_now), with_suffix(bpkg, <<".", "p", "y">>))
    /\ UNCHANGED <<optimize, foreign, bmod, bpkg, bbad, zpacked>>
    /\ UNCHANGED <<apc, ain, araw, apkg, abad, aerr, arestored>>

NextPack ==
    (PackAny \/ ForeignMagicAny \/ ForeignVersionAny \/ TruncatedAny \/ UnpackAny
     \/ PackPy \/ ForeignMagicPy \/ ForeignVersionPy \/ ForeignBodyPy \/ Unpack)
    /\ UNCHANGED <<maskVars, pipeVars, evalVars, hashVars>>

SpecPack == InitPack /\ [][NextPack]_vars

\* C8: unpack_any applied to the package pack_any wrote ends without an
\* exception and has written a file of the original name whose content is the
\* original content, for every content (the empty one too) and every name.
C8_RoundTripAny ==
    (apc \in {"unpacked", "failed"} /\ ~abad /\ "any" \notin foreign) =>
        /\ apc = "unpacked"
        /\ arestored.name = ain.name
        /\ fs[arestored] = araw

C8_Witness ==
    /\ apc = "unpacked" /\ ~abad
    /\ araw = <<>>
    /\ Len(Utf8Encode(ain.name)) > Len(ain.name)
    /\ fs[arestored] = <<>>

\* C9: the node unpack rebuilds from the package pack_py wrote is the packed
\* node (operators, children, metadata, collapse_id), and evaluating it in
\* unpack's environment gives the value, or the exception, the packed node gives.
C9_RoundTripPy ==
    (bpc \in {"unpacked", "failed"} /\ ~bbad /\ "py" \notin foreign) =>
        /\ bpc = "unpacked"
        /\ zunpacked = zpacked
        /\ zunpacked.collapse_id = zpacked.collapse_id
        /\ beval => (brun = EvalOutcome(zpacked, UnpackEnv) /\ berr = brun.err)

C9_Witness ==
    /\ bpc = "unpacked" /\ ~bbad /\ beval
    /\ zpacked.op = "LET" /\ zunpacked = zpacked
    /\ brun = [err |-> "none", val |-> IntV(4)]

\* C10, as claimed: unpacking a file whose magic is wrong fails in both
\* variants, with the same kind of error, before any decompression and without
\* writing a file.
C10_BadMagicSameError ==
    /\ (abad /\ apc \in {"unpacked", "failed"}) =>
          (apc = "failed" /\ "any" \notin inflated /\ \A w \in wrote : w[1] # "any")
    /\ (bbad /\ bpc \in {"unpacked", "failed"}) =>
          (bpc = "failed" /\ "py" \notin inflated /\ \A w \in wrote : w[1] # "py")
    /\ (abad /\ apc = "failed" /\ bbad /\ bpc = "failed") => aerr = berr

\* C11, as claimed: a package whose magic is the packer's and whose version
\* field is not the version the packer writes is rejected by unpack_any and by
\* unpack, and no file is written.
C11_VersionChecked ==
    /\ (apc \in {"unpacked", "failed"} /\ ~abad /\ VersionAny(fs[apkg]) # VER) =>
          (apc = "failed" /\ \A w \in wrote : w[1] # "any")
    /\ (bpc \in {"unpacked", "failed"} /\ ~bbad /\ VersionPy(fs[bpkg]) # VER_CSLX) =>
          (bpc = "failed" /\ \A w \in wrote : w[1] # "py")

\* what the package each unpacker was given holds
AnyNameLen == IntFromBytes(Slice(fs[apkg], 11, 15))
AnyDecodes ==
    /\ Utf8Decode(Slice(fs[apkg], 15, 15 + AnyNameLen)).ok
    /\ decompress(Slice(fs[apkg], 15 + AnyNameLen, Len(fs[apkg]))).ok
PyInflated == decompress(Slice(fs[bpkg], 8, Len(fs[bpkg])))
PyRebuilds(d) == d.ok /\ FromDictError(d.v) = "none"
PyRenders(d) == PyRebuilds(d) /\ RenderError(z_from_dict(d.v)) = "none"
PyDecodesFrom(infl) == infl.ok /\ PyRenders(json_loads(infl.data))
PyDecodes == PyDecodesFrom(PyInflated)
PyOut == with_suffix(bpkg, <<".", "p", "y">>)

CanonAlphabet == {"a", "A", " ", "\t", "\n", "/", "<ldquo>", "<vt>"}
\* every character of the table between two letters, twice; and texts with a
\* capital that has no lower-case letter
MappedChars ==
    {"<ldquo>", "<rdquo>", "<lsquo>", "<rsquo>", "<emdash>", "<endash>", "<nbsp>", "\t", "\r", "\f"}
MappedTexts == {<<"A", c, c, "b">> : c \in MappedChars}
UnpairedTexts == {<<"<doublestruck-R>">>, <<"A", " ", "<doublestruck-R>", "\n", "/", "/">>}
CanonTexts == SeqsUpTo(CanonAlphabet, MaxText) \cup MappedTexts \cup UnpairedTexts

InitCanon ==
    /\ src \in CanonTexts
    /\ canon = <<>> /\ prog = NoProgram /\ perr = "none"
    /\ bc = <<>> /\ hexout = <<>> /\ pc = "source"
    /\ recanon = <<>> /\ asmout = <<>>
    /\ MaskIdle
    /\ EvalIdle
    /\ PackIdle
    /\ HashIdle

\* canonicalize(canon)
CanonicalizeAgain ==
    /\ pc = "canon"
    /\ recanon' = canonicalize(canon)
    /\ pc' = "recanon"
    /\ UNCHANGED <<src, canon, prog, perr, bc, hexout, asmout>>
    /\ UNCHANGED maskVars

NextCanon == (Canonicalize \/ CanonicalizeAgain) /\ UNCHANGED <<evalVars, packVars, hashVars>>

SpecCanon == InitCanon /\ [][NextCanon]_vars

\* C13: canonicalize(canonicalize(s)) = canonicalize(s) for every text s.
C13_Idempotent == pc = "recanon" => recanon = canon

C13_Witness ==
    /\ pc = "recanon"
    /\ src = <<"\t", "A", "<vt>", "<ldquo>">>
    /\ canon = <<"a", " ", "\"">> /\ recanon = canon

\* the lines of the canonical text: none when the text is empty
OutputLines == IF canon = <<>> THEN <<>> ELSE SplitOn(canon, "\n")

\* a line without the white space at its ends
RECURSIVE Trim(_)
Trim(ln) ==
    IF Len(ln) = 0 THEN ln
    ELSE IF IsSpace(ln[1]) THEN Trim(Drop(ln, 1))
    ELSE IF IsSpace(ln[Len(ln)]) THEN Trim(Take(ln, Len(ln) - 1))
    ELSE ln

\* the lines of the source that are neither empty nor a comment once trimmed
SourceLines == SplitOn(src, "\n")
Kept(k) == Len(Trim(SourceLines[k])) > 0 /\ ~StartsWith(Trim(SourceLines[k]), <<"/", "/">>)

\* C29, as claimed: canonicalize returns for every text; every line it returns
\* is non-empty, has no space at either end and no two spaces in a row, holds no
\* tab, CR, form feed, NBSP, curly quote or em/en dash and no uppercase letter,
\* and does not start with '//'; a line of the source is dropped only when it
\* is empty or starts with '//' once trimmed.
C29_CanonicalLines ==
    pc \in {"canon", "recanon"} =>
        /\ \A k \in 1 .. Len(OutputLines) :
              LET ln == OutputLines[k]
              IN /\ Len(ln) > 0
                 /\ ln[1] # " " /\ ln[Len(ln)] # " "
                 /\ \A i \in 1 .. (Len(ln) - 1) : ~(ln[i] = " " /\ ln[i + 1] = " ")
                 /\ \A i \in 1 .. Len(ln) :
                       /\ ln[i] \notin MappedChars
                       /\ ~IsUpperLetter(ln[i])
                 /\ ~StartsWith(ln, <<"/", "/">>)
        /\ Len(OutputLines) = Cardinality({k \in 1 .. Len(SourceLines) : Kept(k)})

\* ------------------------------------------------------ content identifiers
\* the fields a caller gives to ZNode: any operator, up to MaxArgs children, and
\* metadata whose items were inserted in any order
HashChildren == {ZInt(0), ZVar(N_x), ZAdd(ZInt(0), ZVar(N_x))}
HashValues == {JStr(N_x), JInt(1)}
HashMetas ==
    {EmptyDict}
    \cup {<<Item(k, v)>> : k \in {K_name, K_value}, v \in HashValues}
    \cup {<<Item(ks[1], v1), Item(ks[2], v2)>> :
             ks \in {<<K_name, K_value>>, <<K_value, K_name>>},
             v1 \in HashValues, v2 \in HashValues}

\* the same items inserted in another order
Reorderings(d) ==
    {[i \in 1 .. Len(d) |-> d[f[i]]] :
        f \in {g \in [1 .. Len(d) -> 1 .. Len(d)] :
                  \A i \in 1 .. Len(d), j \in 1 .. Len(d) : g[i] = g[j] => i = j}}

InitHash ==
    /\ hop \in ZOps
    /\ hargs \in SeqsUpTo(HashChildren, MaxArgs)
    /\ hmeta \in HashMetas
    /\ hnode = NoNode /\ hother = NoNode /\ hchange = "none" /\ hpc = "fields"
    /\ MaskIdle
    /\ PipeIdle
    /\ EvalIdle
    /\ PackIdle

\* ZNode(op, args, meta)
BuildNode ==
    /\ hpc = "fields"
    /\ hnode' = ZNode(hop, hargs, hmeta)
    /\ hpc' = "built"
    /\ UNCHANGED <<hop, hargs, hmeta, hother, hchange>>

\* a second ZNode(op, args, meta) of the same operator, children and metadata
BuildSame ==
    /\ hpc = "built"
    /\ \E m \in Reorderings(hmeta) : hother' = ZNode(hop, hargs, m)
    /\ hchange' = "none"
    /\ hpc' = "compared"
    /\ UNCHANGED <<hop, hargs, hmeta, hnode>>

\* a second ZNode that differs in the operator, in one child, or in one
\* metadata value
BuildChanged ==
    /\ hpc = "built"
    /\ \/ /\ \E op \in ZOps \ {hop} : hother' = ZNode(op, hargs, hmeta)
          /\ hchange' = "op"
       \/ /\ \E i \in 1 .. Len(hargs) : \E c \in HashChildren \ {hargs[i]} :
                hother' = ZNode(hop, [hargs EXCEPT ![i] = c], hmeta)
          /\ hchange' = "child"
       \/ /\ \E i \in 1 .. Len(hmeta) : \E v \in HashValues \ {hmeta[i].v} :
                hother' = ZNode(hop, hargs, DictSet(hmeta, hmeta[i].k, v))
          /\ hchange' = "meta"
    /\ hpc' = "compared"
    /\ UNCHANGED <<hop, hargs, hmeta, hnode>>

NextHash ==
    (BuildNode \/ BuildSame \/ BuildChanged)
    /\ UNCHANGED <<maskVars, pipeVars, evalVars, packVars>>

SpecHash == InitHash /\ [][NextHash]_vars

\* C12: two nodes built from the same operator, the same metadata (its items
\* inserted in any order) and the same children have the same collapse_id; a
\* node that differs in the operator, in one child or in one metadata value has
\* another collapse_id (the digest taken to be free of collisions).
C12_IdDeterministic ==
    hpc = "compared" =>
        /\ hchange = "none" => hother.collapse_id = hnode.collapse_id
        /\ hchange # "none" => hother.collapse_id # hnode.collapse_id

C12_Witness ==
    /\ hpc = "compared" /\ hchange = "none"
    /\ Len(hmeta) = 2 /\ hother.meta # hnode.meta
    /\ hother.collapse_id = hnode.collapse_id

\* ------------------------------------------ build_mask called on its own
PredFamily(d, q) ==
    {XEqConst(a, c) : a \in Range(d), c \in Range(q)}
    \cup {SetPred({}), SetPred(Tuples(d, q)),
          SetPred({t \in Tuples(d, q) : t[1] = t[d]})}
    \cup (IF Pow(q, d) <= MaxFullPred
          THEN {SetPred(S) : S \in SUBSET Tuples(d, q)} ELSE {})

InitMask ==
    /\ \E d \in 1 .. MaxDim, q \in 2 .. MaxP :
          \E c \in PredFamily(d, q) : BuildMaskEntry(d, q, c)
    /\ PipeIdle
    /\ EvalIdle
    /\ PackIdle
    /\ HashIdle

\* the caller lists the set bits of the returned mask
IndicesCall ==
    /\ mpc = "returned"
    /\ indices' = indices_from_bitset(bs, Pow(p, dim))
    /\ mpc' = "listed"
    /\ UNCHANGED <<dim, p, cond, bs, idx, coords, frames, merr, visited>>
    /\ UNCHANGED pipeVars

NextMask ==
    (RecLeaf \/ RecLoop \/ RecReturn \/ IndicesCall) /\ UNCHANGED <<evalVars, packVars, hashVars>>

SpecMask == InitMask /\ [][NextMask]_vars

LexLess(s, t) ==
    \E k \in 1 .. Len(s) :
        /\ s[k] < t[k]
        /\ \A j \in 1 .. (k - 1) : s[j] = t[j]

MaskDone == mpc \in {"returned", "listed"}

\* C3: build_mask evaluates the predicate on tuples of [0,p)^dim in strictly
\* increasing lexicographic order, the k-th evaluation (from 0) with idx = k,
\* and when it returns it has evaluated exactly p^dim tuples (hence each tuple
\* exactly once) and idx has run through 0 .. p^dim-1.
C3_VisitsEveryTupleInOrder ==
    /\ \A j \in 1 .. Len(visited) :
          /\ visited[j].idx = j - 1
          /\ visited[j].coords \in Tuples(dim, p)
          /\ j > 1 => LexLess(visited[j - 1].coords, visited[j].coords)
    /\ idx = Len(visited)
    /\ MaskDone =>
          /\ Len(visited) = Pow(p, dim)
          /\ {visited[j].coords : j \in 1 .. Len(visited)} = Tuples(dim, p)

C3_Witness ==
    /\ mpc = "returned" /\ p = 3 /\ dim = 3
    /\ Len(visited) = 27
    /\ visited[27] = [coords |-> <<2, 2, 2>>, idx |-> 26]

\* C4: the returned mask has bit i set iff 0 <= i < p^dim and the predicate
\* holds on the tuple whose base-p digits spell i; no bit at position >= p^dim
\* is ever set; indices_from_bitset(mask, p^dim) lists exactly those i ascending.
C4_MaskBits ==
    /\ bs \subseteq Range(Pow(p, dim))
    /\ MaskDone =>
          bs = {i \in Range(Pow(p, dim)) : CondHolds(cond, TupleAt(i, dim, p))}
    /\ mpc = "listed" =>
          /\ {indices[j] : j \in 1 .. Len(indices)} = bs
          /\ \A j \in 2 .. Len(indices) : indices[j - 1] < indices[j]

C4_Witness ==
    /\ mpc = "listed" /\ p = 3 /\ dim = 2
    /\ cond = XEqConst(1, 2)
    /\ indices = <<2, 5, 8>>

====
